---------------------------- MODULE Spec2Model ----------------------------
(***************************************************************************)
(* The resumable synchronization engine of token-indexer.                  *)
(*                                                                         *)
(* State: the indexing_progress rows, the token_transfers and              *)
(* failed_events tables, the three Bull queues with the position of every  *)
(* unit of work inside its handler, the ledger height, the startIndexing   *)
(* and stopIndexing calls in flight and the position of the startup        *)
(* recovery pass.  Every handler is cut at its awaits where another        *)
(* handler's write can fall in between.  Only one chain (137) is           *)
(* configured, so a row is keyed by the contract address alone.            *)
(***************************************************************************)
EXTENDS Integers, Sequences, FiniteSets, Bags, TLC

VARIABLES
    indexingProgress,      \* contract -> row of indexing_progress, or NoRow
    tokenTransfers,        \* bag of event keys: the token_transfers table
    failedEvents,          \* bag of event keys: the failed_events table
    indexingQueue,         \* bag of start-indexing units
    blockProcessingQueue,  \* bag of process-block-range units
    eventProcessingQueue,  \* bag of process-event units
    currentBlock,          \* the ledger's height
    batchSize,             \* blockchain.polygon.batchSize
    startCalls,            \* startIndexing calls between their row write and their queue add
    stopCalls,             \* stopIndexing calls between their row write and removeContractJobs
    resume,                \* position of AutoResumeService.resumeIndexing
    drain,                 \* position of ShutdownService.onApplicationShutdown
    health,                \* position and report of getSystemHealth
    reply,                 \* the last answer of getIndexingStatus
    stopped,               \* history: contract -> Stop has written the flag and no Start wrote since
    applied,               \* history: keys of events whose unit ended applied or skipped
    faults,                \* history: failures injected so far
    calls                  \* history: Start and Stop calls made so far

vars == <<indexingProgress, tokenTransfers, failedEvents, indexingQueue,
          blockProcessingQueue, eventProcessingQueue, currentBlock, batchSize,
          startCalls, stopCalls, resume, drain, health, reply, stopped,
          applied, faults, calls>>

-----------------------------------------------------------------------------
(* Bounds of the model *)

MaxHeight == 2
MaxCalls == 2
MaxFaults == 1
MaxBacklog == 2
MaxBatch == 3
MaxSpan == 4

-----------------------------------------------------------------------------
(* Configuration and ledger *)

NoRow == [none |-> TRUE]

\* indexing.contracts: usdc starts at a configured block, weth at 'latest',
\* dai is configured but disabled, link starts at block 1000.
contracts ==
    [usdc |-> [enabled |-> TRUE,  latest |-> FALSE, startBlock |-> 1],
     weth |-> [enabled |-> TRUE,  latest |-> TRUE,  startBlock |-> 0],
     dai  |-> [enabled |-> FALSE, latest |-> FALSE, startBlock |-> 1],
     link |-> [enabled |-> TRUE,  latest |-> FALSE, startBlock |-> 1000]]

\* Object.values(contracts), in insertion order
contractList == <<"usdc", "weth", "dai", "link">>

\* Addresses a caller may name; "none" is in no configuration entry.
Addresses == {"usdc", "weth", "dai", "link", "none"}

getContractConfig(a) == IF a \in DOMAIN contracts THEN contracts[a] ELSE NoRow

EventNames == {"Transfer", "Approval"}

Ev(c, tx, li, b, n) ==
    [contractAddress |-> c, transactionHash |-> tx, logIndex |-> li,
     blockNumber |-> b, eventName |-> n]

\* The ledger's event log (append-only, so a fixed set; a query sees what lies
\* in its block range).
Ledger ==
    { Ev("usdc", "t1", 0, 1, "Approval"),
      Ev("usdc", "t2", 0, 2, "Transfer"),
      Ev("usdc", "t2", 1, 3, "Transfer"),
      Ev("link", "k1", 0, 1000, "Transfer"),
      Ev("link", "k1", 1, 1000, "Approval"),
      Ev("link", "k2", 0, 1020, "Transfer"),
      Ev("link", "k2", 1, 1049, "Transfer"),
      Ev("link", "k3", 0, 1050, "Transfer") }

Key(ev) == <<ev.transactionHash, ev.logIndex>>

getTokenEvents(c, names, fromBlock, toBlock) ==
    { ev \in Ledger : /\ ev.contractAddress = c
                      /\ ev.eventName \in names
                      /\ fromBlock <= ev.blockNumber
                      /\ ev.blockNumber <= toBlock }

Min(a, b) == IF a <= b THEN a ELSE b

-----------------------------------------------------------------------------
(* Queues: bags of units.  st is "waiting", "delayed" or, for an active    *)
(* unit, the place its handler has reached.                                *)

Pending == {"waiting", "delayed"}

BagAdd(B, x) == B (+) SetToBag({x})
BagDel(B, x) == B (-) SetToBag({x})
BagMove(B, x, y) == BagAdd(BagDel(B, x), y)
Units(B) == BagToSet(B)
Size(B) == BagCardinality(B)

\* A start-indexing unit.  last, cur, fromBlock are the handler's locals;
\* subs, post and grace are history (what this run submitted; how many of them
\* after a Stop; how many the Stop found already past their check).
RunUnit(c, st, delay) ==
    [contractAddress |-> c, st |-> st, delay |-> delay, last |-> 0, cur |-> 0,
     fromBlock |-> 0, subs |-> <<>>, post |-> 0, grace |-> 0,
     attemptsMade |-> 0]

BlockUnit(c, fromBlock, toBlock) ==
    [contractAddress |-> c, fromBlock |-> fromBlock, toBlock |-> toBlock,
     st |-> "waiting", attemptsMade |-> 0]

EventUnit(c, ev) ==
    [contractAddress |-> c, event |-> ev, st |-> "waiting", attemptsMade |-> 0]

Backlog == Size(blockProcessingQueue) + Size(eventProcessingQueue)

-----------------------------------------------------------------------------
(* IndexingService.startIndexing and stopIndexing *)

Row(lastProcessedBlock, isSyncing, syncStartBlock, totalEventsProcessed) ==
    [lastProcessedBlock |-> lastProcessedBlock, isSyncing |-> isSyncing,
     syncStartBlock |-> syncStartBlock,
     totalEventsProcessed |-> totalEventsProcessed]

HasRow(c) == indexingProgress[c] # NoRow

\* Mutant of updateSyncingStatus: the update is not written.
updateSyncingStatusLost(p, c, isSyncing) == p

\* indexingProgressRepository.update({contractAddress, chainId}, {isSyncing}):
\* an update that matches no row changes nothing.
updateSyncingStatus(p, c, isSyncing) ==
    IF p[c] = NoRow THEN p ELSE [p EXCEPT ![c].isSyncing = isSyncing]

firstRowAtStartBlock(cfg, height) ==
    LET startBlock == IF cfg.latest THEN height ELSE cfg.startBlock
    IN  Row(startBlock, TRUE, startBlock, 0)

\* The row startIndexing creates on a first start.
firstRow(cfg, height) ==
    LET startBlock == IF cfg.latest THEN height ELSE cfg.startBlock
    IN  Row(startBlock - 1, TRUE, startBlock, 0)

\* The get-or-create of startIndexing.
startIndexingRowAlwaysCreates(p, c, height) ==
    [p EXCEPT ![c] = firstRow(getContractConfig(c), height)]

startIndexingRow(p, c, height) ==
    IF p[c] = NoRow
    THEN [p EXCEPT ![c] = firstRow(getContractConfig(c), height)]
    ELSE updateSyncingStatus(p, c, TRUE)

\* What a Stop does to the history fields of the contract's runs that are in
\* their batch loop: it notes which of them are already past their check.
NoteStop(Q, c) ==
    LET note(u) == IF u.contractAddress = c /\ u.st \in {"check", "add"}
                   THEN [u EXCEPT !.post = 0,
                                  !.grace = IF u.st = "add" THEN 1 ELSE 0]
                   ELSE u
        S == { note(u) : u \in Units(Q) }
    IN  [ v \in S |-> BagCardinality(
            [ u \in { w \in Units(Q) : note(w) = v } |-> Q[u] ]) ]

startErrorSkipsEnabled(c, isValid) ==
    IF getContractConfig(c) = NoRow THEN "ConfigurationError"
    ELSE IF ~isValid THEN "ValidationError"
    ELSE "none"

\* The error startIndexing throws before it reads or writes anything:
\* contract not configured or disabled, or validateContractAddress false.
startError(c, isValid) ==
    IF getContractConfig(c) = NoRow THEN "ConfigurationError"
    ELSE IF ~getContractConfig(c).enabled THEN "ConfigurationError"
    ELSE IF ~isValid THEN "ValidationError"
    ELSE "none"

\* A startIndexing call in flight.
StartCall(c, by, error) == [contractAddress |-> c, by |-> by, error |-> error]

\* startIndexing up to and including its write of the row.
StartBegin(c, by) ==
    /\ startError(c, TRUE) = "none"
    /\ indexingProgress' = startIndexingRow(indexingProgress, c, currentBlock)
    /\ startCalls' = BagAdd(startCalls, StartCall(c, by, "none"))
    /\ stopped' = [stopped EXCEPT ![c] = FALSE]

\* startIndexing's indexingQueue.add('start-indexing', ..., {delay: 0}).
StartEnqueue(call) ==
    /\ call \in Units(startCalls)
    /\ call.error = "none"
    /\ startCalls' = BagDel(startCalls, call)
    /\ indexingQueue' = BagAdd(indexingQueue,
                               RunUnit(call.contractAddress, "waiting", 0))
    /\ UNCHANGED <<indexingProgress, tokenTransfers, failedEvents,
                   blockProcessingQueue, eventProcessingQueue, currentBlock,
                   batchSize, stopCalls, resume, stopped, applied, faults, calls, drain, health, reply>>

\* POST /indexing/start/:contractAddress
Start(c) ==
    /\ calls < MaxCalls
    /\ calls' = calls + 1
    /\ StartBegin(c, "api")
    /\ UNCHANGED <<tokenTransfers, failedEvents, indexingQueue,
                   blockProcessingQueue, eventProcessingQueue, currentBlock,
                   batchSize, stopCalls, resume, applied, faults, drain, health, reply>>

\* startIndexing is about to throw: nothing has been read or written.
StartReject(c) ==
    /\ calls < MaxCalls
    /\ calls' = calls + 1
    /\ \E isValid \in BOOLEAN :
          /\ startError(c, isValid) # "none"
          /\ startCalls' =
                BagAdd(startCalls, StartCall(c, "api", startError(c, isValid)))
    /\ UNCHANGED <<indexingProgress, tokenTransfers, failedEvents, indexingQueue,
                   blockProcessingQueue, eventProcessingQueue, currentBlock,
                   batchSize, stopCalls, resume, stopped, applied, faults, drain, health, reply>>

\* The error reaches the caller.
StartThrow(call) ==
    /\ call \in Units(startCalls)
    /\ call.error # "none"
    /\ startCalls' = BagDel(startCalls, call)
    /\ UNCHANGED <<indexingProgress, tokenTransfers, failedEvents, indexingQueue,
                   blockProcessingQueue, eventProcessingQueue, currentBlock,
                   batchSize, stopCalls, resume, stopped, applied, faults, calls, drain, health, reply>>

\* Mutant of removeContractJobs: the contract's active units are removed too.
removeActiveJobsToo(Q, c) ==
    [ u \in { w \in Units(Q) : w.contractAddress # c } |-> Q[u] ]

\* Mutant of removeContractJobs: the pending units of every contract are
\* removed.
removeEveryPendingJob(Q, c) ==
    [ u \in { w \in Units(Q) : w.st \notin Pending } |-> Q[u] ]

\* The units removeContractJobs leaves in a queue: those of other contracts and
\* the active ones.
removeContractJobs(Q, c) ==
    [ u \in { w \in Units(Q) : ~(w.contractAddress = c /\ w.st \in Pending) }
        |-> Q[u] ]

\* A stopIndexing call in flight.
StopCall(c, error) == [contractAddress |-> c, error |-> error]

stopErrorNever(c) == "none"

\* The error stopIndexing throws when findOne returns no progress row.
stopError(c) == IF HasRow(c) THEN "none" ELSE "NotFoundError"

\* stopIndexing finds no progress row and is about to throw.
StopReject(c) ==
    /\ calls < MaxCalls
    /\ calls' = calls + 1
    /\ stopError(c) # "none"
    /\ StopCall(c, stopError(c)) \notin stopCalls
    /\ stopCalls' = stopCalls \cup {StopCall(c, stopError(c))}
    /\ UNCHANGED <<indexingProgress, tokenTransfers, failedEvents, indexingQueue,
                   blockProcessingQueue, eventProcessingQueue, currentBlock,
                   batchSize, startCalls, resume, stopped, applied, faults, drain, health, reply>>

\* The error reaches the caller.
StopThrow(call) ==
    /\ call \in stopCalls
    /\ call.error # "none"
    /\ stopCalls' = stopCalls \ {call}
    /\ UNCHANGED <<indexingProgress, tokenTransfers, failedEvents, indexingQueue,
                   blockProcessingQueue, eventProcessingQueue, currentBlock,
                   batchSize, startCalls, resume, stopped, applied, faults, calls, drain, health, reply>>

\* stopIndexing up to and including its write of isSyncing = false.
Stop(c) ==
    /\ calls < MaxCalls
    /\ calls' = calls + 1
    /\ stopError(c) = "none"
    /\ StopCall(c, "none") \notin stopCalls
    /\ indexingProgress' = updateSyncingStatus(indexingProgress, c, FALSE)
    /\ stopCalls' = stopCalls \cup {StopCall(c, "none")}
    /\ stopped' = [stopped EXCEPT ![c] = TRUE]
    /\ indexingQueue' = NoteStop(indexingQueue, c)
    /\ UNCHANGED <<tokenTransfers, failedEvents, blockProcessingQueue,
                   eventProcessingQueue, currentBlock, batchSize, startCalls,
                   resume, applied, faults, drain, health, reply>>

\* stopIndexing's removeContractJobs over the three queues.
StopRemove(c) ==
    /\ StopCall(c, "none") \in stopCalls
    /\ stopCalls' = stopCalls \ {StopCall(c, "none")}
    /\ indexingQueue' = removeContractJobs(indexingQueue, c)
    /\ blockProcessingQueue' = removeContractJobs(blockProcessingQueue, c)
    /\ eventProcessingQueue' = removeContractJobs(eventProcessingQueue, c)
    /\ UNCHANGED <<indexingProgress, tokenTransfers, failedEvents, currentBlock,
                   batchSize, startCalls, resume, stopped, applied, faults, calls, drain, health, reply>>

\* removeContractJobs throws part-way (a listing fails, or a unit taken up
\* in the meantime refuses its removal): the first k queues are cleaned,
\* the catch block logs, and stopIndexing returns normally.
removeJobsErrorRethrown == "QueueError"

\* What removeContractJobs hands to stopIndexing when a queue call throws:
\* nothing, its catch block logs and does not rethrow.
removeJobsError == "none"

StopRemoveFail(c) ==
    /\ StopCall(c, "none") \in stopCalls
    /\ stopCalls' = (stopCalls \ {StopCall(c, "none")})
                      \cup (IF removeJobsError = "none" THEN {}
                            ELSE {StopCall(c, removeJobsError)})
    /\ \E k \in 0 .. 2 :
          /\ indexingQueue' = IF k >= 1 THEN removeContractJobs(indexingQueue, c)
                              ELSE indexingQueue
          /\ blockProcessingQueue' =
                IF k >= 2 THEN removeContractJobs(blockProcessingQueue, c)
                ELSE blockProcessingQueue
    /\ UNCHANGED <<indexingProgress, tokenTransfers, failedEvents,
                   eventProcessingQueue, currentBlock, batchSize, startCalls,
                   resume, stopped, applied, faults, calls, drain, health, reply>>

-----------------------------------------------------------------------------
(* IndexingProcessor.handleStartIndexing: one run unit *)

CatchUpDelay == 60000
WrongCadence == CatchUpDelay
MonitoringDelay == 30000

IsCaughtUp(lastProcessedBlock, height) == lastProcessedBlock >= height - 1

OneBlockTooMany(fromBlock, size, height) == Min(fromBlock + size, height)
NextToBlock(fromBlock, size, height) == Min(fromBlock + size - 1, height)

\* The isSyncing a handler reads with getIndexingStatus.
ReadSyncing(c) == HasRow(c) /\ indexingProgress[c].isSyncing

scheduleNextIndexing(Q, c, delay) == BagAdd(Q, RunUnit(c, "delayed", delay))

\* The unit is taken up; the handler reads the row and the height and
\* decides: skip (stopped), caught up, or the batch loop.
RunStart(u) ==
    /\ u \in Units(indexingQueue)
    /\ u.st \in Pending
    /\ HasRow(u.contractAddress)
    /\ LET c == u.contractAddress
           last == indexingProgress[c].lastProcessedBlock
       IN  indexingQueue' =
             IF ~ReadSyncing(c)
             THEN BagDel(indexingQueue, u)
             ELSE BagMove(indexingQueue, u,
                    [u EXCEPT !.st = IF IsCaughtUp(last, currentBlock)
                                     THEN "caughtup" ELSE "check",
                              !.last = last, !.cur = currentBlock,
                              !.fromBlock = last + 1])
    /\ UNCHANGED <<indexingProgress, tokenTransfers, failedEvents,
                   blockProcessingQueue, eventProcessingQueue, currentBlock,
                   batchSize, startCalls, stopCalls, resume, stopped, applied,
                   faults, calls, drain, health, reply>>

\* Caught up: updateSyncingStatus(false), then the monitoring recheck.
RunCaughtUp(u) ==
    /\ u \in Units(indexingQueue)
    /\ u.st = "caughtup"
    /\ indexingProgress' =
         updateSyncingStatus(indexingProgress, u.contractAddress, FALSE)
    /\ indexingQueue' = scheduleNextIndexing(BagDel(indexingQueue, u),
                                             u.contractAddress, MonitoringDelay)
    /\ UNCHANGED <<tokenTransfers, failedEvents, blockProcessingQueue,
                   eventProcessingQueue, currentBlock, batchSize, startCalls,
                   stopCalls, resume, stopped, applied, faults, calls, drain, health, reply>>

LoopNeverStops(c) == TRUE
\* The loop's re-read of isSyncing before a sub-range is submitted.
LoopMayContinue(c) == ReadSyncing(c)

RunLoopCheck(u) ==
    /\ u \in Units(indexingQueue)
    /\ u.st = "check"
    /\ indexingQueue' =
         IF LoopMayContinue(u.contractAddress)
         THEN BagMove(indexingQueue, u, [u EXCEPT !.st = "add"])
         ELSE BagDel(indexingQueue, u)
    /\ UNCHANGED <<indexingProgress, tokenTransfers, failedEvents,
                   blockProcessingQueue, eventProcessingQueue, currentBlock,
                   batchSize, startCalls, stopCalls, resume, stopped, applied,
                   faults, calls, drain, health, reply>>

\* blockProcessingQueue.add('process-block-range', ...); fromBlock = toBlock + 1.
RunLoopAdd(u) ==
    /\ u \in Units(indexingQueue)
    /\ u.st = "add"
    /\ Backlog < MaxBacklog
    /\ LET c == u.contractAddress
           toBlock == NextToBlock(u.fromBlock, batchSize, u.cur)
       IN  /\ blockProcessingQueue' =
                BagAdd(blockProcessingQueue, BlockUnit(c, u.fromBlock, toBlock))
           /\ indexingQueue' = BagMove(indexingQueue, u,
                [u EXCEPT !.st = IF toBlock + 1 <= u.cur THEN "check" ELSE "final",
                          !.fromBlock = toBlock + 1,
                          !.subs = Append(@, <<u.fromBlock, toBlock>>),
                          !.post = IF stopped[c] THEN @ + 1 ELSE @])
    /\ UNCHANGED <<indexingProgress, tokenTransfers, failedEvents,
                   eventProcessingQueue, currentBlock, batchSize, startCalls,
                   stopCalls, resume, stopped, applied, faults, calls, drain, health, reply>>

\* Mutant of FinalMayReschedule: the follow-up run is always scheduled.
FinalAlwaysReschedules(c) == TRUE

\* The re-read of isSyncing after the loop (finalProgress?.isSyncing).
FinalMayReschedule(c) == ReadSyncing(c)

\* After the loop: the follow-up run, only if still syncing.
RunFinal(u) ==
    /\ u \in Units(indexingQueue)
    /\ u.st = "final"
    /\ indexingQueue' =
         IF FinalMayReschedule(u.contractAddress)
         THEN scheduleNextIndexing(BagDel(indexingQueue, u),
                                   u.contractAddress, CatchUpDelay)
         ELSE BagDel(indexingQueue, u)
    /\ UNCHANGED <<indexingProgress, tokenTransfers, failedEvents,
                   blockProcessingQueue, eventProcessingQueue, currentBlock,
                   batchSize, startCalls, stopCalls, resume, stopped, applied,
                   faults, calls, drain, health, reply>>

-----------------------------------------------------------------------------
(* BlockProcessingProcessor / IndexingService.processBlockRange *)

BlockAttempts == 3
EventAttempts == 3

\* Bull's handling of a unit whose handler threw: back to delayed while
\* attempts remain, dropped as failed after the last one.
Retry(Q, u, attempts) ==
    IF u.attemptsMade + 1 < attempts
    THEN BagMove(Q, u, [u EXCEPT !.st = "delayed",
                                 !.attemptsMade = @ + 1])
    ELSE BagDel(Q, u)

\* The events the contract is configured to index.
configuredEvents == EventNames

\* getTokenEvents succeeds and the events are handed to the event queue
\* (addBulk) as one process-event unit each.
BlockFetch(u) ==
    /\ u \in Units(blockProcessingQueue)
    /\ u.st \in Pending
    /\ LET tokenEvents == getTokenEvents(u.contractAddress, configuredEvents,
                                         u.fromBlock, u.toBlock)
       IN  eventProcessingQueue' = eventProcessingQueue (+)
             SetToBag({ EventUnit(u.contractAddress, ev) : ev \in tokenEvents })
    /\ blockProcessingQueue' =
         BagMove(blockProcessingQueue, u, [u EXCEPT !.st = "update"])
    /\ UNCHANGED <<indexingProgress, tokenTransfers, failedEvents, indexingQueue,
                   currentBlock, batchSize, startCalls, stopCalls, resume,
                   stopped, applied, faults, calls, drain, health, reply>>

\* getTokenEvents throws (the ledger is unreachable): processBlockRange
\* rethrows and the unit is retried.
BlockFetchFail(u) ==
    /\ u \in Units(blockProcessingQueue)
    /\ u.st \in Pending
    /\ faults < MaxFaults
    /\ faults' = faults + 1
    /\ blockProcessingQueue' = Retry(blockProcessingQueue, u, BlockAttempts)
    /\ UNCHANGED <<indexingProgress, tokenTransfers, failedEvents, indexingQueue,
                   eventProcessingQueue, currentBlock, batchSize, startCalls,
                   stopCalls, resume, stopped, applied, calls, drain, health, reply>>

\* The cursor a sub-range writes when it is done.
newCursor(row, toBlock) == toBlock

\* Mutant of updateCursor: the write after a sub-range also resets isSyncing.
updateCursorAndFlag(p, c, toBlock) ==
    IF p[c] = NoRow THEN p
    ELSE [p EXCEPT ![c].lastProcessedBlock = toBlock, ![c].isSyncing = FALSE]

\* indexingProgressRepository.update({contractAddress, chainId},
\*                                   {lastProcessedBlock: toBlock})
updateCursor(p, c, toBlock) ==
    IF p[c] = NoRow THEN p
    ELSE [p EXCEPT ![c].lastProcessedBlock = newCursor(p[c], toBlock)]

BlockUpdate(u) ==
    /\ u \in Units(blockProcessingQueue)
    /\ u.st = "update"
    /\ indexingProgress' = updateCursor(indexingProgress, u.contractAddress, u.toBlock)
    /\ blockProcessingQueue' = BagDel(blockProcessingQueue, u)
    /\ UNCHANGED <<tokenTransfers, failedEvents, indexingQueue,
                   eventProcessingQueue, currentBlock, batchSize, startCalls,
                   stopCalls, resume, stopped, applied, faults, calls, drain, health, reply>>

-----------------------------------------------------------------------------
(* EventProcessingProcessor / IndexingService.processTokenEvent *)

\* tokenTransferRepository.findOne({transactionHash, logIndex})
existing(ev) == BagIn(Key(ev), tokenTransfers)

\* The unit is taken up and looks the event up: present -> skip and return.
EventFind(u) ==
    /\ u \in Units(eventProcessingQueue)
    /\ u.st \in Pending
    /\ IF existing(u.event)
       THEN /\ eventProcessingQueue' = BagDel(eventProcessingQueue, u)
            /\ applied' = applied \cup {Key(u.event)}
       ELSE /\ eventProcessingQueue' =
                 BagMove(eventProcessingQueue, u, [u EXCEPT !.st = "apply"])
            /\ UNCHANGED applied
    /\ UNCHANGED <<indexingProgress, tokenTransfers, failedEvents, indexingQueue,
                   blockProcessingQueue, currentBlock, batchSize, startCalls,
                   stopCalls, resume, stopped, faults, calls, drain, health, reply>>

\* processTransferEvent saves one token_transfers row; an Approval is only
\* logged.
processByName(T, ev) ==
    IF ev.eventName = "Transfer" THEN BagAdd(T, Key(ev)) ELSE T

EventApply(u) ==
    /\ u \in Units(eventProcessingQueue)
    /\ u.st = "apply"
    /\ tokenTransfers' = processByName(tokenTransfers, u.event)
    /\ eventProcessingQueue' =
         BagMove(eventProcessingQueue, u, [u EXCEPT !.st = "count"])
    /\ UNCHANGED <<indexingProgress, failedEvents, indexingQueue,
                   blockProcessingQueue, currentBlock, batchSize, startCalls,
                   stopCalls, resume, stopped, applied, faults, calls, drain, health, reply>>

\* The application throws before anything is saved.
EventApplyFail(u) ==
    /\ u \in Units(eventProcessingQueue)
    /\ u.st = "apply"
    /\ faults < MaxFaults
    /\ faults' = faults + 1
    /\ eventProcessingQueue' =
         BagMove(eventProcessingQueue, u, [u EXCEPT !.st = "fail"])
    /\ UNCHANGED <<indexingProgress, tokenTransfers, failedEvents, indexingQueue,
                   blockProcessingQueue, currentBlock, batchSize, startCalls,
                   stopCalls, resume, stopped, applied, calls, drain, health, reply>>

\* indexingProgressRepository.increment(..., 'totalEventsProcessed', 1)
increment(p, c) ==
    IF p[c] = NoRow THEN p ELSE [p EXCEPT ![c].totalEventsProcessed = @ + 1]

EventCount(u) ==
    /\ u \in Units(eventProcessingQueue)
    /\ u.st = "count"
    /\ indexingProgress' = increment(indexingProgress, u.contractAddress)
    /\ eventProcessingQueue' = BagDel(eventProcessingQueue, u)
    /\ applied' = applied \cup {Key(u.event)}
    /\ UNCHANGED <<tokenTransfers, failedEvents, indexingQueue,
                   blockProcessingQueue, currentBlock, batchSize, startCalls,
                   stopCalls, resume, stopped, faults, calls, drain, health, reply>>

\* The catch block: storeFailedEvent, then the error goes to the queue.
storeFailedEvent(F, ev) == BagAdd(F, Key(ev))

EventFail(u) ==
    /\ u \in Units(eventProcessingQueue)
    /\ u.st = "fail"
    /\ failedEvents' = storeFailedEvent(failedEvents, u.event)
    /\ eventProcessingQueue' = Retry(eventProcessingQueue, u, EventAttempts)
    /\ UNCHANGED <<indexingProgress, tokenTransfers, indexingQueue,
                   blockProcessingQueue, currentBlock, batchSize, startCalls,
                   stopCalls, resume, stopped, applied, faults, calls, drain, health, reply>>

-----------------------------------------------------------------------------
(* The ledger grows *)

Mine ==
    /\ currentBlock < MaxHeight
    /\ currentBlock' = currentBlock + 1
    /\ UNCHANGED <<indexingProgress, tokenTransfers, failedEvents, indexingQueue,
                   blockProcessingQueue, eventProcessingQueue, batchSize,
                   startCalls, stopCalls, resume, stopped, applied, faults, calls, drain, health, reply>>

-----------------------------------------------------------------------------
(* The engine: one tracked contract, operator Start and Stop, the workers of *)
(* the three queues running concurrently                                     *)

EngineContracts == {"usdc"}

Done == [pc |-> "done", idx |-> 0, started |-> {}, failed |-> {}]

\* The drain before a shutdown signal.  log, closed and failed are history:
\* the steps completed, the queues closed and the queues whose close threw,
\* in order.
Idle ==
    [pc |-> "idle", qi |-> 1, total |-> 0, elapsed |-> 0, log |-> <<>>,
     closed |-> <<>>, failed |-> <<>>]

\* getSystemHealth before it is called.  errors is history: the queries of
\* this call that threw.
NoCheck ==
    [pc |-> "idle", errors |-> {}, status |-> "healthy", issues |-> <<>>,
     connected |-> FALSE, rows |-> {}, totalContracts |-> 0,
     activelyIndexing |-> 0, syncLag |-> <<>>, dbConnected |-> FALSE,
     failedEvents |-> 0]

\* No status has been asked for.
NoReply == [contractAddress |-> "none", row |-> NoRow, error |-> "none",
            asked |-> FALSE]

Init ==
    /\ indexingProgress = [c \in Addresses |-> NoRow]
    /\ tokenTransfers = EmptyBag
    /\ failedEvents = EmptyBag
    /\ indexingQueue = EmptyBag
    /\ blockProcessingQueue = EmptyBag
    /\ eventProcessingQueue = EmptyBag
    /\ currentBlock = MaxHeight - 1
    /\ batchSize = 1
    /\ startCalls = EmptyBag
    /\ stopCalls = {}
    /\ resume = Done
    /\ drain = Idle
    /\ health = NoCheck
    /\ reply = NoReply
    /\ stopped = [c \in Addresses |-> FALSE]
    /\ applied = {}
    /\ faults = 0
    /\ calls = 0

Next ==
    \/ \E c \in EngineContracts : Start(c)
    \/ \E c \in EngineContracts : Stop(c)
    \/ \E c \in EngineContracts : StopRemove(c)
    \/ \E call \in Units(startCalls) : StartEnqueue(call)
    \/ \E u \in Units(indexingQueue) : RunStart(u)
    \/ \E u \in Units(indexingQueue) : RunCaughtUp(u)
    \/ \E u \in Units(indexingQueue) : RunLoopCheck(u)
    \/ \E u \in Units(indexingQueue) : RunLoopAdd(u)
    \/ \E u \in Units(indexingQueue) : RunFinal(u)
    \/ \E u \in Units(blockProcessingQueue) : BlockFetch(u)
    \/ \E u \in Units(blockProcessingQueue) : BlockFetchFail(u)
    \/ \E u \in Units(blockProcessingQueue) : BlockUpdate(u)
    \/ \E u \in Units(eventProcessingQueue) : EventFind(u)
    \/ \E u \in Units(eventProcessingQueue) : EventApply(u)
    \/ \E u \in Units(eventProcessingQueue) : EventApplyFail(u)
    \/ \E u \in Units(eventProcessingQueue) : EventCount(u)
    \/ \E u \in Units(eventProcessingQueue) : EventFail(u)
    \/ Mine

Spec == Init /\ [][Next]_vars

-----------------------------------------------------------------------------
(* Claims *)

Cursor(p, c) == p[c].lastProcessedBlock

\* C1 (as claimed): in every step, the lastProcessedBlock of every progress
\* row is at least what it was before the step.
C1_MonotonicCursor ==
    [][\A c \in Addresses :
          HasRow(c) => Cursor(indexingProgress', c) >= Cursor(indexingProgress, c)]_vars


\* C2 (as claimed): the materialized store never holds more than one record
\* with the same (transactionHash, logIndex), however often and however
\* interleaved the event's unit is delivered.
C2_OneRecordPerKey ==
    \A ev \in Ledger : CopiesIn(Key(ev), tokenTransfers) <= 1

\* The events of a contract whose unit has ended applied or skipped.
AppliedEvents(c) ==
    { ev \in Ledger : ev.contractAddress = c /\ Key(ev) \in applied }

\* C3 (as claimed): totalEventsProcessed counts events, not deliveries: it
\* never exceeds the number of distinct events applied, Transfer or Approval,
\* and it never decreases.
C3_CountsEventsOnce ==
    /\ [](\A c \in Addresses :
            HasRow(c) => indexingProgress[c].totalEventsProcessed
                           <= Cardinality(AppliedEvents(c)))
    /\ [][\A c \in Addresses :
            HasRow(c) => indexingProgress'[c].totalEventsProcessed
                           >= indexingProgress[c].totalEventsProcessed]_vars

\* An event is settled when its unit has ended applied or skipped, or a
\* FailedEvent row records it.
Settled(ev) == Key(ev) \in applied \/ BagIn(Key(ev), failedEvents)

\* A sub-range unit that this step completes by writing the cursor.
CursorWrittenBy(u) ==
    /\ u \in Units(blockProcessingQueue)
    /\ u.st = "update"
    /\ CopiesIn(u, blockProcessingQueue') < CopiesIn(u, blockProcessingQueue)

\* C4 (as claimed): when a sub-range unit sets lastProcessedBlock to its
\* toBlock, every event the ledger returned for the sub-range is settled.
C4_CursorAfterSettled ==
    [][\A u \in Units(blockProcessingQueue) :
          CursorWrittenBy(u) =>
            \A ev \in getTokenEvents(u.contractAddress, configuredEvents,
                                     u.fromBlock, u.toBlock) : Settled(ev)']_vars


-----------------------------------------------------------------------------
(* The coordinator and the scheduler alone: Start, Stop, the run units and   *)
(* the sub-range units that move the cursor, for a contract whose log holds  *)
(* no event (event units never write the flag, the cursor or a queue that a  *)
(* run reads).                                                               *)

RunsContracts == {"weth"}

NextRuns ==
    \/ \E c \in RunsContracts : Start(c)
    \/ \E c \in RunsContracts : Stop(c)
    \/ \E c \in RunsContracts : StopRemove(c)
    \/ \E call \in Units(startCalls) : StartEnqueue(call)
    \/ \E u \in Units(indexingQueue) : RunStart(u)
    \/ \E u \in Units(indexingQueue) : RunCaughtUp(u)
    \/ \E u \in Units(indexingQueue) : RunLoopCheck(u)
    \/ \E u \in Units(indexingQueue) : RunLoopAdd(u)
    \/ \E u \in Units(indexingQueue) : RunFinal(u)
    \/ \E u \in Units(blockProcessingQueue) : BlockFetch(u)
    \/ \E u \in Units(blockProcessingQueue) : BlockUpdate(u)
    \/ Mine

SpecRuns == Init /\ [][NextRuns]_vars


ActiveRuns == { u \in Units(indexingQueue) : u.st \notin Pending }

\* C5: once Stop has written isSyncing = false and no Start has written
\* since, a run that was inside its batch loop has submitted at most the one
\* sub-range whose isSyncing check preceded the Stop, and a run taken up
\* afterwards has submitted none.
C5_StopHonored ==
    \A u \in Units(indexingQueue) :
        stopped[u.contractAddress] => u.post <= u.grace

\* A run submitted its one further sub-range after the Stop.
C5_Witness ==
    \E u \in Units(indexingQueue) :
        stopped[u.contractAddress] /\ u.post = 1 /\ u.grace = 1

\* A run unit in its caught-up branch that this step completes.
CaughtUpDoneBy(u) ==
    /\ u \in Units(indexingQueue)
    /\ u.st = "caughtup"
    /\ CopiesIn(u, indexingQueue') < CopiesIn(u, indexingQueue)

\* C6: a run that read isSyncing = true and lastProcessedBlock >=
\* currentHeight - 1 is in its caught-up branch and has submitted nothing; the
\* step that completes it sets isSyncing = false, submits no sub-range and
\* replaces the run by exactly one run unit delayed by 30 s.
C6_CaughtUpTransition ==
    /\ [](\A u \in ActiveRuns :
            u.last >= u.cur - 1 => u.st = "caughtup" /\ u.subs = <<>>)
    /\ [][\A u \in Units(indexingQueue) :
            CaughtUpDoneBy(u) =>
              /\ ~indexingProgress'[u.contractAddress].isSyncing
              /\ blockProcessingQueue' = blockProcessingQueue
              /\ indexingQueue' =
                   BagAdd(BagDel(indexingQueue, u),
                          RunUnit(u.contractAddress, "delayed", 30000))]_vars

\* The caught-up transition has happened: the flag is down and the 30 s
\* recheck is armed.
C6_Witness ==
    \E u \in Units(indexingQueue) :
        /\ u.st = "delayed" /\ u.delay = 30000
        /\ ~indexingProgress[u.contractAddress].isSyncing
        /\ ~stopped[u.contractAddress]


-----------------------------------------------------------------------------
(* The end-to-end scenario: link is configured to start at block 1000, the   *)
(* ledger stands at 1050, batchSize is 20.  One first Start, no Stop, no     *)
(* failure; the delay of a follow-up run has not elapsed, so only waiting    *)
(* run units are taken up.                                                   *)

InitE2E ==
    /\ indexingProgress = [c \in Addresses |-> NoRow]
    /\ tokenTransfers = EmptyBag
    /\ failedEvents = EmptyBag
    /\ indexingQueue = EmptyBag
    /\ blockProcessingQueue = EmptyBag
    /\ eventProcessingQueue = EmptyBag
    /\ currentBlock = 1050
    /\ batchSize = 20
    /\ startCalls = EmptyBag
    /\ stopCalls = {}
    /\ resume = Done
    /\ drain = Idle
    /\ health = NoCheck
    /\ reply = NoReply
    /\ stopped = [c \in Addresses |-> FALSE]
    /\ applied = {}
    /\ faults = 0
    /\ calls = 0

FirstStart(c) == ~HasRow(c) /\ Start(c)

RunStartWaiting(u) == u.st = "waiting" /\ RunStart(u)

NextE2E ==
    \/ FirstStart("link")
    \/ \E call \in Units(startCalls) : StartEnqueue(call)
    \/ \E u \in Units(indexingQueue) : RunStartWaiting(u)
    \/ \E u \in Units(indexingQueue) : RunLoopCheck(u)
    \/ \E u \in Units(indexingQueue) : RunLoopAdd(u)
    \/ \E u \in Units(indexingQueue) : RunFinal(u)
    \/ \E u \in Units(blockProcessingQueue) : BlockFetch(u)
    \/ \E u \in Units(blockProcessingQueue) : BlockUpdate(u)
    \/ \E u \in Units(eventProcessingQueue) : EventFind(u)
    \/ \E u \in Units(eventProcessingQueue) : EventApply(u)
    \/ \E u \in Units(eventProcessingQueue) : EventCount(u)

SpecE2E == InitE2E /\ [][NextE2E]_vars

\* One full run is over: the Start has returned, the run unit and every
\* sub-range and event unit it caused have completed, and all that is left is
\* the follow-up run waiting for its delay.
OneFullRun ==
    /\ HasRow("link")
    /\ startCalls = EmptyBag
    /\ blockProcessingQueue = EmptyBag
    /\ eventProcessingQueue = EmptyBag
    /\ \A u \in Units(indexingQueue) : u.st = "delayed"

\* The store holds exactly one record for each of the given events.
StoreIs(evs) == tokenTransfers = SetToBag({ Key(ev) : ev \in evs })

-----------------------------------------------------------------------------
(* The batch scheduler over a range of inputs: a started contract whose row  *)
(* stands at any cursor, any height above it, any batchSize, and the         *)
(* [100, 349] by 100 example; no Stop.  The sub-range units complete         *)
(* concurrently and move the cursor while the run submits.                   *)

SplitInputs ==
    { <<l, h, b>> \in (0 .. 1) \X (2 .. MaxSpan + 1) \X (1 .. MaxBatch) :
          h >= l + 2 /\ h <= l + MaxSpan }
      \cup { <<99, 349, 100>> }

InitSplit ==
    \E in \in SplitInputs :
        /\ indexingProgress =
             [c \in Addresses |->
                 IF c = "weth" THEN Row(in[1], TRUE, 1, 0) ELSE NoRow]
        /\ currentBlock = in[2]
        /\ batchSize = in[3]
        /\ tokenTransfers = EmptyBag
        /\ failedEvents = EmptyBag
        /\ indexingQueue = SetToBag({RunUnit("weth", "waiting", 0)})
        /\ blockProcessingQueue = EmptyBag
        /\ eventProcessingQueue = EmptyBag
        /\ startCalls = EmptyBag
        /\ stopCalls = {}
        /\ resume = Done
        /\ drain = Idle
        /\ health = NoCheck
        /\ reply = NoReply
        /\ stopped = [c \in Addresses |-> FALSE]
        /\ applied = {}
        /\ faults = 0
        /\ calls = 0

NextSplit ==
    \/ \E u \in Units(indexingQueue) : RunStart(u)
    \/ \E u \in Units(indexingQueue) : RunCaughtUp(u)
    \/ \E u \in Units(indexingQueue) : RunLoopCheck(u)
    \/ \E u \in Units(indexingQueue) : RunLoopAdd(u)
    \/ \E u \in Units(indexingQueue) : RunFinal(u)
    \/ \E u \in Units(blockProcessingQueue) : BlockFetch(u)
    \/ \E u \in Units(blockProcessingQueue) : BlockUpdate(u)

SpecSplit == InitSplit /\ [][NextSplit]_vars

\* sub_i of the claim, i counted from 0.
Sub(from, to, size, i) ==
    <<from + i * size, Min(from + (i + 1) * size - 1, to)>>

\* The number of sub-ranges of [from, to]: the least n with from + n*size > to.
SubCount(from, to, size) == (to - from + size) \div size

BlocksOf(r) == r[1] .. r[2]

\* What the run has submitted so far is sub_0, sub_1, ... in this order.
SubmittedAsSplit(u) ==
    /\ Len(u.subs) <= SubCount(u.last + 1, u.cur, batchSize)
    /\ \A i \in 1 .. Len(u.subs) :
          u.subs[i] = Sub(u.last + 1, u.cur, batchSize, i - 1)

\* The finished submission: ascending, disjoint, contiguous, bounded, covering.
SubmittedCovers(u) ==
    /\ Len(u.subs) = SubCount(u.last + 1, u.cur, batchSize)
    /\ \A i \in 1 .. Len(u.subs) :
          /\ u.subs[i][1] <= u.subs[i][2]
          /\ u.subs[i][2] - u.subs[i][1] + 1 <= batchSize
    /\ \A i \in 1 .. Len(u.subs) - 1 : u.subs[i + 1][1] = u.subs[i][2] + 1
    /\ \A i, j \in 1 .. Len(u.subs) :
          i # j => BlocksOf(u.subs[i]) \cap BlocksOf(u.subs[j]) = {}
    /\ UNION { BlocksOf(u.subs[i]) : i \in 1 .. Len(u.subs) }
         = (u.last + 1) .. u.cur

-----------------------------------------------------------------------------
(* AutoResumeService: the recovery pass of a restarted process, next to the  *)
(* run workers, which take units from module initialisation on.              *)

\* resumeIndexing's filter of the configured contracts.
isEnabledContract(c) == contracts[c].enabled

ResumesAnyContract(c) == TRUE

\* resumeContractIndexing's check that the contract was indexed before.
wasIndexedBefore(c) == HasRow(c)

\* resetStuckSyncingStates: update({isSyncing: true}, {isSyncing: false}).
resetStuckSyncingStates(p) ==
    [c \in Addresses |->
        IF p[c] # NoRow /\ p[c].isSyncing
        THEN [p[c] EXCEPT !.isSyncing = FALSE] ELSE p[c]]

\* The pass moves on to the next configured contract, or ends.
advance(r) ==
    IF r.idx = Len(contractList)
    THEN [r EXCEPT !.pc = "done"]
    ELSE [r EXCEPT !.pc = "resume", !.idx = r.idx + 1]

\* The timer of onModuleInit fires: resumeIndexing starts with the reset.
RecoveryReset ==
    /\ resume.pc = "timer"
    /\ indexingProgress' = resetStuckSyncingStates(indexingProgress)
    /\ resume' = [resume EXCEPT !.pc = "resume", !.idx = 1]
    /\ UNCHANGED <<tokenTransfers, failedEvents, indexingQueue,
                   blockProcessingQueue, eventProcessingQueue, currentBlock,
                   batchSize, startCalls, stopCalls, stopped, applied, faults,
                   calls, drain, health, reply>>

\* A contract the filter drops, or one without a row: nothing is done.
RecoverySkip ==
    /\ resume.pc = "resume"
    /\ LET c == contractList[resume.idx]
       IN  ~(isEnabledContract(c) /\ wasIndexedBefore(c))
    /\ resume' = advance(resume)
    /\ UNCHANGED <<indexingProgress, tokenTransfers, failedEvents, indexingQueue,
                   blockProcessingQueue, eventProcessingQueue, currentBlock,
                   batchSize, startCalls, stopCalls, stopped, applied, faults,
                   calls, drain, health, reply>>

\* resumeContractIndexing calls startIndexing, which gets to its row write.
RecoveryStart ==
    /\ resume.pc = "resume"
    /\ LET c == contractList[resume.idx]
       IN  /\ isEnabledContract(c)
           /\ wasIndexedBefore(c)
           /\ StartBegin(c, "recovery")
           /\ resume' = [resume EXCEPT !.pc = "enqueue",
                                       !.started = @ \cup {c}]
    /\ UNCHANGED <<tokenTransfers, failedEvents, indexingQueue,
                   blockProcessingQueue, eventProcessingQueue, currentBlock,
                   batchSize, stopCalls, applied, faults, calls, drain, health, reply>>

\* startIndexing throws (validateContractAddress answers false, or the
\* contract is disabled); resumeContractIndexing catches it and logs.
RecoveryStartFail ==
    /\ resume.pc = "resume"
    /\ LET c == contractList[resume.idx]
       IN  /\ isEnabledContract(c)
           /\ wasIndexedBefore(c)
           /\ faults < MaxFaults \/ ~getContractConfig(c).enabled
           /\ faults' = IF getContractConfig(c).enabled
                        THEN faults + 1 ELSE faults
           /\ resume' = [advance(resume) EXCEPT !.failed = @ \cup {c}]
    /\ UNCHANGED <<indexingProgress, tokenTransfers, failedEvents, indexingQueue,
                   blockProcessingQueue, eventProcessingQueue, currentBlock,
                   batchSize, startCalls, stopCalls, stopped, applied, calls, drain, health, reply>>

\* startIndexing's indexingQueue.add, then the pass goes on.
RecoveryEnqueue ==
    /\ resume.pc = "enqueue"
    /\ LET call == StartCall(contractList[resume.idx], "recovery", "none")
       IN  /\ call \in Units(startCalls)
           /\ startCalls' = BagDel(startCalls, call)
           /\ indexingQueue' = BagAdd(indexingQueue,
                                  RunUnit(call.contractAddress, "waiting", 0))
    /\ resume' = advance(resume)
    /\ UNCHANGED <<indexingProgress, tokenTransfers, failedEvents,
                   blockProcessingQueue, eventProcessingQueue, currentBlock,
                   batchSize, stopCalls, stopped, applied, faults, calls, drain, health, reply>>

\* What the crashed process may have left for a contract: no row; a row at
\* rest; a row still marked syncing, alone or with the follow-up its last
\* run scheduled.
Leftovers ==
    [weth |-> {"none", "idle", "stuck", "stuck+unit"},
     dai  |-> {"none", "idle", "stuck", "stuck+unit"},
     link |-> {"none", "idle", "stuck", "stuck+unit"}]

RecoveryContracts == DOMAIN Leftovers

leftRow(c, l) ==
    IF l = "none" THEN NoRow
    ELSE Row(IF getContractConfig(c).latest THEN 0
             ELSE getContractConfig(c).startBlock - 1,
             l \in {"stuck", "stuck+unit"},
             IF getContractConfig(c).latest THEN 1
             ELSE getContractConfig(c).startBlock, 0)

leftUnits(left) ==
    { RunUnit(c, "delayed", CatchUpDelay) :
        c \in { d \in RecoveryContracts : left[d] = "stuck+unit" } }

InitRecovery ==
    \E left \in { f \in [RecoveryContracts -> UNION { Leftovers[c] : c \in RecoveryContracts }] :
                       \A c \in RecoveryContracts : f[c] \in Leftovers[c] } :
        /\ indexingProgress =
             [c \in Addresses |->
                 IF c \in RecoveryContracts THEN leftRow(c, left[c]) ELSE NoRow]
        /\ indexingQueue = SetToBag(leftUnits(left))
        /\ tokenTransfers = EmptyBag
        /\ failedEvents = EmptyBag
        /\ blockProcessingQueue = EmptyBag
        /\ eventProcessingQueue = EmptyBag
        /\ currentBlock = MaxHeight
        /\ batchSize = 1
        /\ startCalls = EmptyBag
        /\ stopCalls = {}
        /\ resume = [pc |-> "timer", idx |-> 0, started |-> {}, failed |-> {}]
        /\ drain = Idle
        /\ health = NoCheck
        /\ reply = NoReply
        /\ stopped = [c \in Addresses |-> FALSE]
        /\ applied = {}
        /\ faults = 0
        /\ calls = 0

NextRecovery ==
    \/ RecoveryReset
    \/ RecoverySkip
    \/ RecoveryStart
    \/ RecoveryStartFail
    \/ RecoveryEnqueue
    \/ \E u \in Units(indexingQueue) : RunStart(u)
    \/ \E u \in Units(indexingQueue) : RunCaughtUp(u)
    \/ \E u \in Units(indexingQueue) : RunLoopCheck(u)
    \/ \E u \in Units(indexingQueue) : RunLoopAdd(u)
    \/ \E u \in Units(indexingQueue) : RunFinal(u)

SpecRecovery == InitRecovery /\ [][NextRecovery]_vars


\* C9: after a restart no run unit, the persisted ones included, gets past
\* its isSyncing check and submits sub-ranges before the recovery pass has
\* reset the rows the previous process left with isSyncing = true.
C9_RepairBeforeRuns ==
    resume.pc = "timer" =>
        \A u \in Units(indexingQueue) : u.st \in Pending \/ Len(u.subs) = 0

Configured == Addresses \ {"none"}

Resumable(c) == contracts[c].enabled /\ HasRow(c)

RunUnitsFor(Q, c) ==
    BagCardinality([u \in { w \in Units(Q) : w.contractAddress = c } |-> Q[u]])

\* A step of the pass leaves the contract's row and run units alone.
Untouched(c) ==
    /\ indexingProgress'[c] = indexingProgress[c]
    /\ RunUnitsFor(indexingQueue', c) = RunUnitsFor(indexingQueue, c)

\* The same, but for the reset of a set isSyncing flag in the pass's first step.
UntouchedButReset(c) ==
    /\ indexingProgress'[c] =
         IF resume.pc = "timer" /\ ReadSyncing(c)
         THEN [indexingProgress[c] EXCEPT !.isSyncing = FALSE]
         ELSE indexingProgress[c]
    /\ RunUnitsFor(indexingQueue', c) = RunUnitsFor(indexingQueue, c)

\* What a step of the pass does for the contracts it resumes: Start is
\* called only for a resumable one, sets isSyncing, and then adds one unit.
ResumeStep ==
    \A c \in Configured :
        /\ c \in resume'.started \ resume.started =>
              Resumable(c) /\ indexingProgress'[c].isSyncing
        /\ c \in resume'.failed \ resume.failed => Resumable(c) /\ Untouched(c)
        /\ resume.pc = "enqueue" =>
              RunUnitsFor(indexingQueue', c) =
                 RunUnitsFor(indexingQueue, c)
                   + (IF c = contractList[resume.idx] THEN 1 ELSE 0)

\* At the end of the pass Start was called for exactly the resumable
\* contracts, and every Start that succeeded has added its unit.
ResumedAll ==
    resume.pc = "done" =>
        /\ resume.started \cup resume.failed = { c \in Configured : Resumable(c) }
        /\ resume.started \cap resume.failed = {}
        /\ startCalls = EmptyBag

-----------------------------------------------------------------------------
(* One event whose application throws on every attempt Bull gives its unit,  *)
(* in a sub-range with other events.                                         *)

\* The event whose save throws.
Poison == <<"t2", 0>>

InitFailure ==
    /\ indexingProgress = [c \in Addresses |-> NoRow]
    /\ tokenTransfers = EmptyBag
    /\ failedEvents = EmptyBag
    /\ indexingQueue = EmptyBag
    /\ blockProcessingQueue = EmptyBag
    /\ eventProcessingQueue = EmptyBag
    /\ currentBlock = MaxHeight
    /\ batchSize = MaxHeight
    /\ startCalls = EmptyBag
    /\ stopCalls = {}
    /\ resume = Done
    /\ drain = Idle
    /\ health = NoCheck
    /\ reply = NoReply
    /\ stopped = [c \in Addresses |-> FALSE]
    /\ applied = {}
    /\ faults = MaxFaults - EventAttempts
    /\ calls = 0

\* processTransferEvent succeeds for every other event.
EventApplyOther(u) == Key(u.event) # Poison /\ EventApply(u)

\* processTransferEvent throws for the one event.
EventApplyPoison(u) == Key(u.event) = Poison /\ EventApplyFail(u)

NextFailure ==
    \/ \E c \in EngineContracts : FirstStart(c)
    \/ \E call \in Units(startCalls) : StartEnqueue(call)
    \/ \E u \in Units(indexingQueue) : RunStart(u)
    \/ \E u \in Units(indexingQueue) : RunCaughtUp(u)
    \/ \E u \in Units(indexingQueue) : RunLoopCheck(u)
    \/ \E u \in Units(indexingQueue) : RunLoopAdd(u)
    \/ \E u \in Units(indexingQueue) : RunFinal(u)
    \/ \E u \in Units(blockProcessingQueue) : BlockFetch(u)
    \/ \E u \in Units(blockProcessingQueue) : BlockUpdate(u)
    \/ \E u \in Units(eventProcessingQueue) : EventFind(u)
    \/ \E u \in Units(eventProcessingQueue) : EventApplyOther(u)
    \/ \E u \in Units(eventProcessingQueue) : EventApplyPoison(u)
    \/ \E u \in Units(eventProcessingQueue) : EventCount(u)
    \/ \E u \in Units(eventProcessingQueue) : EventFail(u)

SpecFailure == InitFailure /\ [][NextFailure]_vars

\* The sub-range [1, MaxHeight] has been handled and every attempt of the
\* failing event's unit has run.
FailureSettled ==
    /\ HasRow("usdc")
    /\ startCalls = EmptyBag
    /\ blockProcessingQueue = EmptyBag
    /\ eventProcessingQueue = EmptyBag
    /\ faults = MaxFaults
    /\ \A u \in Units(indexingQueue) : u.st = "delayed"

\* C11: when one event of a sub-range throws on every attempt, the other
\* events of the sub-range are applied, the cursor is the sub-range's
\* toBlock, and failed_events holds exactly one row, for the failing event.
C11_FailureIsolation ==
    FailureSettled =>
        /\ \A ev \in getTokenEvents("usdc", configuredEvents, 1, MaxHeight) :
              Key(ev) # Poison => Key(ev) \in applied
        /\ Poison \notin applied
        /\ indexingProgress["usdc"].lastProcessedBlock = MaxHeight
        /\ failedEvents = SetToBag({Poison})


-----------------------------------------------------------------------------
(* The control surface: Start and Stop calls for configured, disabled and    *)
(* unknown contracts, accepted or rejected, next to the run and sub-range    *)
(* workers.                                                                  *)

ApiContracts == {"weth", "link", "dai", "none"}

NextApi ==
    \/ \E c \in ApiContracts : Start(c)
    \/ \E c \in ApiContracts : StartReject(c)
    \/ \E call \in Units(startCalls) : StartThrow(call)
    \/ \E call \in Units(startCalls) : StartEnqueue(call)
    \/ \E c \in ApiContracts : Stop(c)
    \/ \E c \in ApiContracts : StopReject(c)
    \/ \E call \in stopCalls : StopThrow(call)
    \/ \E c \in ApiContracts : StopRemove(c)
    \/ \E c \in ApiContracts : StopRemoveFail(c)
    \/ \E u \in Units(indexingQueue) : RunStart(u)
    \/ \E u \in Units(indexingQueue) : RunCaughtUp(u)
    \/ \E u \in Units(indexingQueue) : RunLoopCheck(u)
    \/ \E u \in Units(indexingQueue) : RunLoopAdd(u)
    \/ \E u \in Units(indexingQueue) : RunFinal(u)
    \/ \E u \in Units(blockProcessingQueue) : BlockFetch(u)
    \/ \E u \in Units(blockProcessingQueue) : BlockUpdate(u)
    \/ Mine

SpecApi == Init /\ [][NextApi]_vars


\* The startIndexing calls that a step begins, and those it ends.
Begun == { k \in Units(startCalls') :
             CopiesIn(k, startCalls') > CopiesIn(k, startCalls) }

Ended == { k \in Units(startCalls) :
             CopiesIn(k, startCalls') < CopiesIn(k, startCalls) }

\* A Start that must be rejected: the contract is not configured or is
\* disabled, or the call is the one whose validation answered false.
MustReject(k) ==
    \/ k.contractAddress \notin DOMAIN contracts
    \/ ~contracts[k.contractAddress].enabled
    \/ k.error = "ValidationError"

StoresAndQueuesUnchanged ==
    UNCHANGED <<indexingProgress, tokenTransfers, failedEvents, indexingQueue,
                blockProcessingQueue, eventProcessingQueue>>

\* C12: a Start for a contract that is not configured, is disabled or does
\* not validate ends in an error, and from its call to its throw no progress
\* row is created or changed and no queue changes.
C12_StartRejects ==
    [][/\ \A k \in Begun :
             MustReject(k) => k.error # "none" /\ StoresAndQueuesUnchanged
       /\ \A k \in Ended :
             MustReject(k) => k.error # "none" /\ StoresAndQueuesUnchanged]_vars

\* A Start of a contract that has a row and is syncing is being rejected
\* by validation.
C12_Witness ==
    /\ StartCall("weth", "api", "ValidationError") \in Units(startCalls)
    /\ ReadSyncing("weth")


\* The block a first start begins at: the configured one, or the height.
ConfiguredStart(c) ==
    IF contracts[c].latest THEN currentBlock ELSE contracts[c].startBlock

\* What a successful Start must leave in the contract's row.
RowAfterStart(c) ==
    IF HasRow(c)
    THEN [indexingProgress[c] EXCEPT !.isSyncing = TRUE]
    ELSE [lastProcessedBlock |-> ConfiguredStart(c) - 1,
          isSyncing |-> TRUE,
          syncStartBlock |-> ConfiguredStart(c),
          totalEventsProcessed |-> 0]

\* C13: a successful Start creates the row of a first start (syncStartBlock
\* the configured block or the height, lastProcessedBlock one below it,
\* isSyncing, no events counted), and on a restart only sets isSyncing;
\* other rows are left alone, the call adds exactly one run unit, waiting
\* with no delay, and a run taken up starts at lastProcessedBlock + 1.
C13_StartEffect ==
    [][/\ \A k \in Begun :
             k.error = "none" =>
                /\ indexingProgress'[k.contractAddress] =
                      RowAfterStart(k.contractAddress)
                /\ \A d \in Addresses \ {k.contractAddress} :
                      indexingProgress'[d] = indexingProgress[d]
                /\ indexingQueue' = indexingQueue
       /\ \A k \in Ended :
             k.error = "none" =>
                /\ indexingQueue' =
                      BagAdd(indexingQueue,
                             RunUnit(k.contractAddress, "waiting", 0))
                /\ indexingProgress' = indexingProgress
       /\ \A u \in Units(indexingQueue') :
             (u \notin Units(indexingQueue) /\ u.st = "check" /\ u.subs = <<>>) =>
                u.fromBlock =
                   indexingProgress[u.contractAddress].lastProcessedBlock + 1
      ]_vars

\* A restart of a stopped contract whose cursor has moved, at a height above
\* the one of its first start.
C13_Witness ==
    /\ StartCall("weth", "api", "none") \in Units(startCalls)
    /\ indexingProgress["weth"].lastProcessedBlock
         >= indexingProgress["weth"].syncStartBlock
    /\ currentBlock > indexingProgress["weth"].syncStartBlock


\* Start calls made one after the other: a call begins when none is in
\* flight.
StartAlone(c) == startCalls = EmptyBag /\ Start(c)

NextSerial ==
    \/ \E c \in RunsContracts : StartAlone(c)
    \/ \E call \in Units(startCalls) : StartEnqueue(call)
    \/ \E c \in RunsContracts : Stop(c)
    \/ \E c \in RunsContracts : StopRemove(c)
    \/ \E u \in Units(indexingQueue) : RunStart(u)
    \/ \E u \in Units(indexingQueue) : RunCaughtUp(u)
    \/ \E u \in Units(indexingQueue) : RunLoopCheck(u)
    \/ \E u \in Units(indexingQueue) : RunLoopAdd(u)
    \/ \E u \in Units(indexingQueue) : RunFinal(u)
    \/ \E u \in Units(blockProcessingQueue) : BlockFetch(u)
    \/ \E u \in Units(blockProcessingQueue) : BlockUpdate(u)
    \/ Mine

SpecSerial == Init /\ [][NextSerial]_vars

\* The contract's run units that are pending or active.
RunUnitsOf(Q, c) == [u \in { w \in Units(Q) : w.contractAddress = c } |-> Q[u]]

\* C14: a Start for a contract that is syncing and already has a pending or
\* active run unit is a no-op re-arm: it leaves the row and the contract's
\* run units as they were.
C14_StartIdempotent ==
    [][\A k \in Begun \cup Ended :
          (/\ k.error = "none"
           /\ ReadSyncing(k.contractAddress)
           /\ RunUnitsFor(indexingQueue, k.contractAddress) >= 1) =>
             /\ indexingProgress' = indexingProgress
             /\ RunUnitsOf(indexingQueue', k.contractAddress)
                  = RunUnitsOf(indexingQueue, k.contractAddress)]_vars

\* The run units of a contract that are past their isSyncing check and in
\* their batch loop.
InBatchLoop(c) ==
    [u \in { w \in Units(indexingQueue) :
               w.contractAddress = c /\ w.st \in {"check", "add"} }
        |-> indexingQueue[u]]

\* C15: at most one run unit per contract is past its isSyncing check and
\* submitting sub-ranges.
C15_OneActiveSync ==
    \A c \in Addresses : BagCardinality(InBatchLoop(c)) <= 1


\* C16: a Stop for a contract with no progress row ends in a not-found
\* error, and from its call to its throw no row is created or changed and
\* no queued unit is removed.
C16_StopUnknown ==
    [][/\ \A k \in stopCalls' \ stopCalls :
             ~HasRow(k.contractAddress) =>
                k.error = "NotFoundError" /\ StoresAndQueuesUnchanged
       /\ \A k \in stopCalls \ stopCalls' :
             k.error # "none" => StoresAndQueuesUnchanged]_vars

\* A Stop of a contract without a row is being rejected while another
\* contract is syncing with a run unit queued.
C16_Witness ==
    /\ \E k \in stopCalls : k.error = "NotFoundError"
    /\ \E c \in Addresses : ReadSyncing(c) /\ RunUnitsFor(indexingQueue, c) >= 1


\* The units of a queue that a cancellation could remove.
PendingUnits(Q) == [u \in { w \in Units(Q) : w.st \in Pending } |-> Q[u]]

\* C17: a Stop for a contract with a row writes isSyncing = false before it
\* touches any queue, and when its cancellation ends, completely or after a
\* failure part-way, it returns normally: no error reaches the caller and
\* the flag it wrote is not changed again.
C17_StopOnFlagAlone ==
    [][/\ \A k \in stopCalls' \ stopCalls :
             HasRow(k.contractAddress) =>
                /\ k.error = "none"
                /\ ~indexingProgress'[k.contractAddress].isSyncing
                /\ PendingUnits(indexingQueue') = PendingUnits(indexingQueue)
                /\ UNCHANGED <<blockProcessingQueue, eventProcessingQueue>>
       /\ \A k \in stopCalls \ stopCalls' :
             k.error = "none" =>
                /\ stopCalls' = stopCalls \ {k}
                /\ indexingProgress' = indexingProgress]_vars

\* A Stop has returned with the flag cleared although pending units of the
\* contract are still in the run queue and in the sub-range queue.
C17_Witness ==
    \E c \in Addresses :
        /\ stopped[c]
        /\ stopCalls = {}
        /\ ~ReadSyncing(c)
        /\ \E u \in Units(indexingQueue) :
              u.contractAddress = c /\ u.st \in Pending
        /\ \E u \in Units(blockProcessingQueue) :
              u.contractAddress = c /\ u.st \in Pending


-----------------------------------------------------------------------------
(* handleStartIndexing's catch block: a run that throws                      *)

\* The attempts Bull gives a run unit: the queue's default for the unit
\* startIndexing adds, one for a unit scheduleNextIndexing adds.
RunAttemptsDefault == 5
RunAttemptsScheduled == 1
RunAttempts(u) == IF u.delay = 0 THEN RunAttemptsDefault ELSE RunAttemptsScheduled

\* The handler rethrows: Bull retries the unit from its beginning while
\* attempts remain and keeps it as failed after the last one.
RunRetry(Q, u) ==
    IF u.attemptsMade + 1 < RunAttempts(u)
    THEN BagMove(Q, u, [RunUnit(u.contractAddress, "delayed", u.delay)
                          EXCEPT !.attemptsMade = u.attemptsMade + 1])
    ELSE BagMove(Q, u, [u EXCEPT !.st = "failed",
                                 !.attemptsMade = u.attemptsMade + 1])

runErrorFlagKept(p, c) == p

\* The catch block's updateSyncingStatus(contractAddress, chainId, false).
runErrorFlag(p, c) == updateSyncingStatus(p, c, FALSE)

\* getCurrentBlockNumber throws after the unit has passed its isSyncing
\* check.
RunHeightFail(u) ==
    /\ u \in Units(indexingQueue)
    /\ u.st \in Pending
    /\ ReadSyncing(u.contractAddress)
    /\ faults < MaxFaults
    /\ faults' = faults + 1
    /\ indexingProgress' = runErrorFlag(indexingProgress, u.contractAddress)
    /\ indexingQueue' = RunRetry(indexingQueue, u)
    /\ UNCHANGED <<tokenTransfers, failedEvents, blockProcessingQueue,
                   eventProcessingQueue, currentBlock, batchSize, startCalls,
                   stopCalls, resume, stopped, applied, calls, drain, health, reply>>

\* blockProcessingQueue.add throws inside the batch loop.
RunAddFail(u) ==
    /\ u \in Units(indexingQueue)
    /\ u.st = "add"
    /\ faults < MaxFaults
    /\ faults' = faults + 1
    /\ indexingProgress' = runErrorFlag(indexingProgress, u.contractAddress)
    /\ indexingQueue' = RunRetry(indexingQueue, u)
    /\ UNCHANGED <<tokenTransfers, failedEvents, blockProcessingQueue,
                   eventProcessingQueue, currentBlock, batchSize, startCalls,
                   stopCalls, resume, stopped, applied, calls, drain, health, reply>>

NextRunErrors ==
    \/ \E c \in RunsContracts : Start(c)
    \/ \E call \in Units(startCalls) : StartEnqueue(call)
    \/ \E u \in Units(indexingQueue) : RunStart(u)
    \/ \E u \in Units(indexingQueue) : RunHeightFail(u)
    \/ \E u \in Units(indexingQueue) : RunCaughtUp(u)
    \/ \E u \in Units(indexingQueue) : RunLoopCheck(u)
    \/ \E u \in Units(indexingQueue) : RunLoopAdd(u)
    \/ \E u \in Units(indexingQueue) : RunAddFail(u)
    \/ \E u \in Units(indexingQueue) : RunFinal(u)
    \/ Mine

SpecRunErrors == Init /\ [][NextRunErrors]_vars

\* The run units a step hands back to the queue as thrown.
Thrown ==
    { u \in Units(indexingQueue') :
        /\ u.attemptsMade > 0
        /\ CopiesIn(u, indexingQueue') > CopiesIn(u, indexingQueue) }

-----------------------------------------------------------------------------
(* A sub-range whose fetch fails on every attempt Bull gives its unit.       *)

\* getTokenEvents throws for a sub-range that holds this block.
BadBlock == 1

BadRange(u) == u.fromBlock <= BadBlock /\ BadBlock <= u.toBlock

\* A started contract at a height above its cursor, its run unit waiting.
InitExhaust ==
    /\ indexingProgress =
         [c \in Addresses |-> IF c = "weth" THEN Row(0, TRUE, 1, 0) ELSE NoRow]
    /\ tokenTransfers = EmptyBag
    /\ failedEvents = EmptyBag
    /\ indexingQueue = SetToBag({RunUnit("weth", "waiting", 0)})
    /\ blockProcessingQueue = EmptyBag
    /\ eventProcessingQueue = EmptyBag
    /\ currentBlock = MaxHeight
    /\ batchSize \in 1 .. MaxBatch
    /\ startCalls = EmptyBag
    /\ stopCalls = {}
    /\ resume = Done
    /\ drain = Idle
    /\ health = NoCheck
    /\ reply = NoReply
    /\ stopped = [c \in Addresses |-> FALSE]
    /\ applied = {}
    /\ faults = MaxFaults - BlockAttempts
    /\ calls = 0

BlockFetchGood(u) == ~BadRange(u) /\ BlockFetch(u)

BlockFetchBad(u) == BadRange(u) /\ BlockFetchFail(u)

NextExhaust ==
    \/ \E u \in Units(indexingQueue) : RunStart(u)
    \/ \E u \in Units(indexingQueue) : RunCaughtUp(u)
    \/ \E u \in Units(indexingQueue) : RunLoopCheck(u)
    \/ \E u \in Units(indexingQueue) : RunLoopAdd(u)
    \/ \E u \in Units(indexingQueue) : RunFinal(u)
    \/ \E u \in Units(blockProcessingQueue) : BlockFetchGood(u)
    \/ \E u \in Units(blockProcessingQueue) : BlockFetchBad(u)
    \/ \E u \in Units(blockProcessingQueue) : BlockUpdate(u)

SpecExhaust == InitExhaust /\ [][NextExhaust]_vars

\* A unit of the failing sub-range has used up its attempts: every failure
\* has happened and no unit of the sub-range is left to have had a part of
\* them.
Exhausted ==
    /\ faults = MaxFaults
    /\ \A u \in Units(blockProcessingQueue) : ~BadRange(u)

\* C19: once a sub-range unit has failed on each of its 3 attempts, the
\* contract's run is aborted (no run unit is in its batch loop) and its
\* isSyncing is false.
C19_ExhaustedAborts ==
    Exhausted =>
        /\ ~ReadSyncing("weth")
        /\ \A u \in Units(indexingQueue) : u.st \notin {"check", "add"}

-----------------------------------------------------------------------------
(* Shutdown: ShutdownService.onApplicationShutdown marks every syncing row *)
(* as not syncing, polls the queues' active units until there are none or  *)
(* the timeout has passed, then closes the queues.  The handler is cut at  *)
(* its awaits; the workers go on while it waits.  What closing does to a   *)
(* queue's workers is Bull's and is left unconstrained.  A failing update  *)
(* or close (both caught and logged) is not modelled.                      *)

timeoutMs == 30000

pollMs == 1000

queues == <<"indexing", "block-processing", "event-processing">>

queueNamed(n) ==
    CASE n = "indexing" -> indexingQueue
      [] n = "block-processing" -> blockProcessingQueue
      [] n = "event-processing" -> eventProcessingQueue

\* queue.getActive(): the units a worker holds.
getActive(Q) ==
    [u \in { w \in Units(Q) : w.st \notin Pending \cup {"failed"} } |-> Q[u]]

\* markSyncingAsStopped's update of every row with isSyncing true.
markSyncingAsStopped(p) ==
    [c \in Addresses |->
        IF p[c] # NoRow /\ p[c].isSyncing
        THEN [p[c] EXCEPT !.isSyncing = FALSE]
        ELSE p[c]]

\* Mutant of allCompleted: the wait returns after its first round.
allCompletedAlways(totalActiveJobs) == TRUE

\* waitForActiveJobs' test after a round over the queues.
allCompleted(totalActiveJobs) == totalActiveJobs = 0

\* waitForActiveJobs' loop condition.
withinTimeout(elapsed) == elapsed < timeoutMs

\* The drain after one queue's count (0 when getActive threw) is added to
\* the round's total; after the last queue the total is tested.
polled(d, n) ==
    LET total == d.total + n
    IN  IF d.qi < Len(queues)
        THEN [d EXCEPT !.total = total, !.qi = @ + 1]
        ELSE IF allCompleted(total)
             THEN [d EXCEPT !.total = total, !.qi = 1, !.pc = "close",
                            !.log = Append(@, "wait")]
             ELSE [d EXCEPT !.total = total, !.qi = 1, !.pc = "sleep"]

\* The shutdown signal arrives and step 1 writes the rows.
ShutdownMark ==
    /\ drain.pc = "idle"
    /\ indexingProgress' = markSyncingAsStopped(indexingProgress)
    /\ drain' = [drain EXCEPT !.pc = "poll", !.log = Append(@, "mark")]
    /\ UNCHANGED <<tokenTransfers, failedEvents, indexingQueue,
                   blockProcessingQueue, eventProcessingQueue, currentBlock,
                   batchSize, startCalls, stopCalls, resume, stopped, applied,
                   faults, calls, health, reply>>

\* One getActive of the round returns.
ShutdownPoll ==
    /\ drain.pc = "poll"
    /\ drain' = polled(drain, Size(getActive(queueNamed(queues[drain.qi]))))
    /\ UNCHANGED <<indexingProgress, tokenTransfers, failedEvents,
                   indexingQueue, blockProcessingQueue, eventProcessingQueue,
                   currentBlock, batchSize, startCalls, stopCalls, resume,
                   stopped, applied, faults, calls, health, reply>>

\* One getActive of the round throws: a warning, and nothing is counted.
ShutdownPollFail ==
    /\ drain.pc = "poll"
    /\ faults < MaxFaults
    /\ faults' = faults + 1
    /\ drain' = polled(drain, 0)
    /\ UNCHANGED <<indexingProgress, tokenTransfers, failedEvents,
                   indexingQueue, blockProcessingQueue, eventProcessingQueue,
                   currentBlock, batchSize, startCalls, stopCalls, resume,
                   stopped, applied, calls, health, reply>>

\* Mutant of slept: the wait goes round without time passing.
sleptNoTime(d) == [d EXCEPT !.pc = "poll", !.total = 0]

\* The drain after the 1-second wait and the test of the loop condition.
slept(d) ==
    LET elapsed == d.elapsed + pollMs
    IN  IF withinTimeout(elapsed)
        THEN [d EXCEPT !.elapsed = elapsed, !.pc = "poll", !.total = 0]
        ELSE [d EXCEPT !.elapsed = elapsed, !.pc = "close",
                       !.log = Append(@, "wait")]

\* The 1-second wait ends and the loop condition is tested.
ShutdownSleep ==
    /\ drain.pc = "sleep"
    /\ drain' = slept(drain)
    /\ UNCHANGED <<indexingProgress, tokenTransfers, failedEvents,
                   indexingQueue, blockProcessingQueue, eventProcessingQueue,
                   currentBlock, batchSize, startCalls, stopCalls, resume,
                   stopped, applied, faults, calls, health, reply>>

\* closeQueues closes the next queue.
ShutdownClose ==
    /\ drain.pc = "close"
    /\ drain' = IF drain.qi < Len(queues)
                THEN [drain EXCEPT !.closed = Append(@, queues[drain.qi]),
                                   !.qi = @ + 1]
                ELSE [drain EXCEPT !.closed = Append(@, queues[drain.qi]),
                                   !.pc = "done", !.log = Append(@, "close")]
    /\ UNCHANGED <<indexingProgress, tokenTransfers, failedEvents,
                   indexingQueue, blockProcessingQueue, eventProcessingQueue,
                   currentBlock, batchSize, startCalls, stopCalls, resume,
                   stopped, applied, faults, calls, health, reply>>

\* When the signal may arrive: weth has been started and its run waits; usdc
\* is idle at the ledger's height with one of its event units still waiting.
InitShutdown ==
    /\ indexingProgress =
         [c \in Addresses |->
             CASE c = "weth" -> Row(0, TRUE, 1, 0)
               [] c = "usdc" -> Row(MaxHeight, FALSE, 1, 1)
               [] OTHER -> NoRow]
    /\ tokenTransfers = EmptyBag
    /\ failedEvents = EmptyBag
    /\ indexingQueue = SetToBag({RunUnit("weth", "waiting", 0)})
    /\ blockProcessingQueue = EmptyBag
    /\ eventProcessingQueue =
         SetToBag({EventUnit("usdc", Ev("usdc", "t2", 0, 2, "Transfer"))})
    /\ currentBlock = MaxHeight
    /\ batchSize = MaxBatch
    /\ startCalls = EmptyBag
    /\ stopCalls = {}
    /\ resume = Done
    /\ drain = Idle
    /\ health = NoCheck
    /\ reply = NoReply
    /\ stopped = [c \in Addresses |-> FALSE]
    /\ applied = {}
    /\ faults = 0
    /\ calls = 0

NextShutdown ==
    \/ ShutdownMark
    \/ ShutdownPoll
    \/ ShutdownPollFail
    \/ ShutdownSleep
    \/ ShutdownClose
    \/ \E u \in Units(indexingQueue) : RunStart(u)
    \/ \E u \in Units(indexingQueue) : RunCaughtUp(u)
    \/ \E u \in Units(indexingQueue) : RunLoopCheck(u)
    \/ \E u \in Units(indexingQueue) : RunLoopAdd(u)
    \/ \E u \in Units(indexingQueue) : RunFinal(u)
    \/ \E u \in Units(blockProcessingQueue) : BlockFetch(u)
    \/ \E u \in Units(blockProcessingQueue) : BlockUpdate(u)
    \/ \E u \in Units(eventProcessingQueue) : EventFind(u)
    \/ \E u \in Units(eventProcessingQueue) : EventApply(u)
    \/ \E u \in Units(eventProcessingQueue) : EventCount(u)

SpecShutdown == InitShutdown /\ [][NextShutdown]_vars

\* The steps of the drain, in the order the claim gives them.
DrainSteps == <<"mark", "wait", "close">>

-----------------------------------------------------------------------------
(* The drain with its caught failures: the update of step 1 and a queue's  *)
(* close may throw; both are logged and the drain goes on.  Every call the *)
(* drain awaits is taken to settle, by returning or by throwing; the       *)
(* workers are free never to finish their units.                           *)

\* markSyncingAsStopped's update throws: logged, no row is written.
ShutdownMarkFail ==
    /\ drain.pc = "idle"
    /\ faults < MaxFaults
    /\ faults' = faults + 1
    /\ drain' = [drain EXCEPT !.pc = "poll", !.log = Append(@, "mark")]
    /\ UNCHANGED <<indexingProgress, tokenTransfers, failedEvents,
                   indexingQueue, blockProcessingQueue, eventProcessingQueue,
                   currentBlock, batchSize, startCalls, stopCalls, resume,
                   stopped, applied, calls, health, reply>>

\* A queue's close throws: logged, closeQueues goes on with the next queue.
ShutdownCloseFail ==
    /\ drain.pc = "close"
    /\ faults < MaxFaults
    /\ faults' = faults + 1
    /\ drain' = IF drain.qi < Len(queues)
                THEN [drain EXCEPT !.failed = Append(@, queues[drain.qi]),
                                   !.qi = @ + 1]
                ELSE [drain EXCEPT !.failed = Append(@, queues[drain.qi]),
                                   !.pc = "done", !.log = Append(@, "close")]
    /\ UNCHANGED <<indexingProgress, tokenTransfers, failedEvents,
                   indexingQueue, blockProcessingQueue, eventProcessingQueue,
                   currentBlock, batchSize, startCalls, stopCalls, resume,
                   stopped, applied, calls, health, reply>>

\* A step of onApplicationShutdown.
ShutdownStep ==
    \/ ShutdownMark
    \/ ShutdownMarkFail
    \/ ShutdownPoll
    \/ ShutdownPollFail
    \/ ShutdownSleep
    \/ ShutdownClose
    \/ ShutdownCloseFail

NextDrain ==
    \/ ShutdownMark
    \/ ShutdownMarkFail
    \/ ShutdownPoll
    \/ ShutdownPollFail
    \/ ShutdownSleep
    \/ ShutdownClose
    \/ ShutdownCloseFail
    \/ \E u \in Units(indexingQueue) : RunStart(u)
    \/ \E u \in Units(indexingQueue) : RunCaughtUp(u)
    \/ \E u \in Units(indexingQueue) : RunLoopCheck(u)
    \/ \E u \in Units(indexingQueue) : RunLoopAdd(u)
    \/ \E u \in Units(indexingQueue) : RunFinal(u)
    \/ \E u \in Units(blockProcessingQueue) : BlockFetch(u)
    \/ \E u \in Units(blockProcessingQueue) : BlockUpdate(u)
    \/ \E u \in Units(eventProcessingQueue) : EventFind(u)
    \/ \E u \in Units(eventProcessingQueue) : EventApply(u)
    \/ \E u \in Units(eventProcessingQueue) : EventCount(u)

SpecDrain == InitShutdown /\ [][NextDrain]_vars /\ WF_vars(ShutdownStep)

Range(f) == { f[i] : i \in DOMAIN f }

-----------------------------------------------------------------------------
(* Health: HealthMonitoringService.getSystemHealth, cut at its awaits.     *)
(* Each of the three checks catches its own errors and returns a default   *)
(* value; the rules are applied to what the checks returned.  The          *)
(* configuration is the static one (indexing.contracts is always defined). *)

lagThreshold == 1000

failedEventsThreshold == 100

\* status === 'unhealthy' ? 'unhealthy' : 'degraded'
degrade(status) == IF status = "unhealthy" THEN "unhealthy" ELSE "degraded"

enabledContracts == { c \in DOMAIN contracts : contracts[c].enabled }

allProgress(p) == { c \in Addresses : p[c] # NoRow }

\* The rule on checkBlockchainHealth's result.
blockchainRules(h, connected) ==
    IF ~connected
    THEN [h EXCEPT !.connected = FALSE,
                   !.issues = Append(@, "Blockchain RPC connection failed"),
                   !.status = "unhealthy"]
    ELSE [h EXCEPT !.connected = TRUE]

\* The two rules on checkIndexingHealth's result.
indexingRules(h, totalContracts, activelyIndexing, syncLag) ==
    LET idle == activelyIndexing = 0 /\ totalContracts > 0
        high == \E c \in DOMAIN syncLag : syncLag[c] > lagThreshold
        h1 == [h EXCEPT !.totalContracts = totalContracts,
                        !.activelyIndexing = activelyIndexing,
                        !.syncLag = syncLag]
        h2 == IF idle
              THEN [h1 EXCEPT
                       !.issues = Append(@, "No contracts are actively indexing"),
                       !.status = degrade(@)]
              ELSE h1
    IN  IF high
        THEN [h2 EXCEPT !.issues = Append(@, "High sync lag detected"),
                        !.status = degrade(@)]
        ELSE h2

\* The two rules on checkDatabaseHealth's result.
databaseRules(h, connected, failed) ==
    LET h1 == [h EXCEPT !.dbConnected = connected, !.failedEvents = failed]
        h2 == IF ~connected
              THEN [h1 EXCEPT !.issues = Append(@, "Database connection failed"),
                              !.status = "unhealthy"]
              ELSE h1
    IN  IF failed > failedEventsThreshold
        THEN [h2 EXCEPT !.issues = Append(@, "High number of failed events"),
                        !.status = degrade(@)]
        ELSE h2

HealthStep(h) ==
    /\ health' = h
    /\ UNCHANGED <<indexingProgress, tokenTransfers, failedEvents,
                   indexingQueue, blockProcessingQueue, eventProcessingQueue,
                   currentBlock, batchSize, startCalls, stopCalls, resume,
                   drain, stopped, applied, faults, calls, reply>>

\* checkBlockchainHealth: getCurrentBlockNumber returns.
HealthBlockchain ==
    /\ health.pc = "idle"
    /\ HealthStep([blockchainRules(health, TRUE) EXCEPT !.pc = "find"])

\* checkBlockchainHealth: getCurrentBlockNumber throws.
HealthBlockchainFail ==
    /\ health.pc = "idle"
    /\ HealthStep([blockchainRules(health, FALSE) EXCEPT
                      !.pc = "find", !.errors = @ \cup {"blockchain"}])

\* checkIndexingHealth: find() returns the rows.
HealthFind ==
    /\ health.pc = "find"
    /\ HealthStep([health EXCEPT
          !.pc = "height",
          !.rows = { <<c, indexingProgress[c].lastProcessedBlock,
                       indexingProgress[c].isSyncing>> :
                     c \in allProgress(indexingProgress) }])

\* checkIndexingHealth: find() throws; the catch returns zeros.
HealthFindFail ==
    /\ health.pc = "find"
    /\ HealthStep([indexingRules(health, 0, 0, <<>>) EXCEPT
                      !.pc = "sum", !.errors = @ \cup {"find"}])

\* checkIndexingHealth: getCurrentBlockNumber returns; the lags are computed.
HealthHeight ==
    /\ health.pc = "height"
    /\ LET cs == { r[1] : r \in health.rows }
           row(c) == CHOOSE r \in health.rows : r[1] = c
           syncLag == [c \in cs |-> currentBlock - row(c)[2]]
           activelyIndexing == Cardinality({ r \in health.rows : r[3] })
       IN  HealthStep([indexingRules(health, Cardinality(enabledContracts),
                                     activelyIndexing, syncLag)
                         EXCEPT !.pc = "sum"])

\* checkIndexingHealth: getCurrentBlockNumber throws; the catch returns zeros.
HealthHeightFail ==
    /\ health.pc = "height"
    /\ HealthStep([indexingRules(health, 0, 0, <<>>) EXCEPT
                      !.pc = "sum", !.errors = @ \cup {"height"}])

\* checkDatabaseHealth: the SUM query returns.
HealthSum ==
    /\ health.pc = "sum"
    /\ HealthStep([health EXCEPT !.pc = "count"])

\* checkDatabaseHealth: the SUM query throws.
HealthSumFail ==
    /\ health.pc = "sum"
    /\ HealthStep([databaseRules(health, FALSE, 0) EXCEPT
                      !.pc = "done", !.errors = @ \cup {"sum"}])

\* checkDatabaseHealth: the count of failed events returns.
HealthCount ==
    /\ health.pc = "count"
    /\ HealthStep([databaseRules(health, TRUE, Size(failedEvents)) EXCEPT
                      !.pc = "done"])

\* checkDatabaseHealth: the count of failed events throws.
HealthCountFail ==
    /\ health.pc = "count"
    /\ HealthStep([databaseRules(health, FALSE, 0) EXCEPT
                      !.pc = "done", !.errors = @ \cup {"count"}])

\* The stores and the ledger a health check may find: usdc and weth with no
\* row, an idle row or a syncing row; the height at, one below and one above
\* the lag threshold; the failed_events table empty, at and above its
\* threshold.
InitHealth ==
    /\ indexingProgress \in
         { [c \in Addresses |->
               CASE c = "usdc" -> a
                 [] c = "weth" -> b
                 [] OTHER -> NoRow] :
           a \in {NoRow, Row(1, FALSE, 1, 0), Row(1, TRUE, 1, 0)},
           b \in {NoRow, Row(0, FALSE, 1, 0), Row(0, TRUE, 1, 0)} }
    /\ tokenTransfers = EmptyBag
    /\ failedEvents \in
         { EmptyBag,
           [k \in {Poison} |-> failedEventsThreshold],
           [k \in {Poison} |-> failedEventsThreshold + 1] }
    /\ indexingQueue = EmptyBag
    /\ blockProcessingQueue = EmptyBag
    /\ eventProcessingQueue = EmptyBag
    /\ currentBlock \in {MaxHeight, lagThreshold, lagThreshold + 1}
    /\ batchSize = MaxBatch
    /\ startCalls = EmptyBag
    /\ stopCalls = {}
    /\ resume = Done
    /\ drain = Idle
    /\ health = NoCheck
    /\ reply = NoReply
    /\ stopped = [c \in Addresses |-> FALSE]
    /\ applied = {}
    /\ faults = 0
    /\ calls = 0

NextHealth ==
    \/ HealthBlockchain
    \/ HealthBlockchainFail
    \/ HealthFind
    \/ HealthFindFail
    \/ HealthHeight
    \/ HealthHeightFail
    \/ HealthSum
    \/ HealthSumFail
    \/ HealthCount
    \/ HealthCountFail

SpecHealth == InitHealth /\ [][NextHealth]_vars

\* The degraded rules of the claim, on what the stores and the ledger hold.
Degraded ==
    \/ /\ \A c \in Addresses : ~ReadSyncing(c)
       /\ enabledContracts # {}
    \/ \E c \in allProgress(indexingProgress) :
          currentBlock - indexingProgress[c].lastProcessedBlock > lagThreshold
    \/ Size(failedEvents) > failedEventsThreshold

\* C22 (as claimed): a returned report is unhealthy if a ledger height query
\* or a storage query of the call failed; otherwise degraded if no row is
\* syncing while a contract is enabled, or a lag exceeds 1000, or failed_events
\* holds more than 100 rows; otherwise healthy.
C22_HealthClassification ==
    health.pc = "done" =>
        health.status = IF health.errors # {} THEN "unhealthy"
                        ELSE IF Degraded THEN "degraded"
                        ELSE "healthy"

\* C23 (as claimed): a report produced after an internal error has status
\* unhealthy and a non-empty issues list.
C23_HealthNeverFails ==
    (health.pc = "done" /\ health.errors # {}) =>
        /\ health.status = "unhealthy"
        /\ health.issues # <<>>

-----------------------------------------------------------------------------
(* The admin reset-stuck-syncing operation: the controller calls           *)
(* manualResumeAll, which runs resumeContractIndexing for every enabled    *)
(* contract.                                                               *)

\* What the operation may find for a contract: no row, a row at rest, or a
\* row marked syncing with no run unit.
Found == {"none", "idle", "stuck"}

InitManual ==
    \E left \in [RecoveryContracts -> Found] :
        /\ indexingProgress =
             [c \in Addresses |->
                 IF c \in RecoveryContracts THEN leftRow(c, left[c]) ELSE NoRow]
        /\ indexingQueue = EmptyBag
        /\ tokenTransfers = EmptyBag
        /\ failedEvents = EmptyBag
        /\ blockProcessingQueue = EmptyBag
        /\ eventProcessingQueue = EmptyBag
        /\ currentBlock = MaxHeight
        /\ batchSize = 1
        /\ startCalls = EmptyBag
        /\ stopCalls = {}
        /\ resume = [pc |-> "admin", idx |-> 0, started |-> {}, failed |-> {}]
        /\ drain = Idle
        /\ health = NoCheck
        /\ reply = NoReply
        /\ stopped = [c \in Addresses |-> FALSE]
        /\ applied = {}
        /\ faults = 0
        /\ calls = 0

\* resetStuckSyncing calls manualResumeAll, which goes to its loop.
ManualResumeAll ==
    /\ resume.pc = "admin"
    /\ resume' = [resume EXCEPT !.pc = "resume", !.idx = 1]
    /\ UNCHANGED <<indexingProgress, tokenTransfers, failedEvents,
                   indexingQueue, blockProcessingQueue, eventProcessingQueue,
                   currentBlock, batchSize, startCalls, stopCalls, drain,
                   health, stopped, applied, faults, calls, reply>>

NextManual ==
    \/ ManualResumeAll
    \/ RecoverySkip
    \/ RecoveryStart
    \/ RecoveryStartFail
    \/ RecoveryEnqueue
    \/ \E u \in Units(indexingQueue) : RunStart(u)
    \/ \E u \in Units(indexingQueue) : RunCaughtUp(u)
    \/ \E u \in Units(indexingQueue) : RunLoopCheck(u)
    \/ \E u \in Units(indexingQueue) : RunLoopAdd(u)
    \/ \E u \in Units(indexingQueue) : RunFinal(u)

SpecManual == InitManual /\ [][NextManual]_vars

\* C24 (as claimed): when the reset-stuck-syncing operation starts to resume
\* indexing, the rows it found with isSyncing = true and no run have been
\* reset: no row has isSyncing = true.
C24_ManualReset ==
    (resume.pc = "resume" /\ resume.idx = 1) =>
        \A c \in Addresses : ~ReadSyncing(c)

-----------------------------------------------------------------------------
(* Status: GET /indexing/status/:contractAddress.  The service's findOne   *)
(* answers the row or null (NoRow here); the controller returns it.        *)

\* Mutant of getIndexingStatus: a missing row is answered with an error.
getIndexingStatusThrows(p, c) ==
    [contractAddress |-> c, row |-> p[c],
     error |-> IF p[c] = NoRow THEN "NotFoundError" ELSE "none",
     asked |-> TRUE]

getIndexingStatus(p, c) ==
    [contractAddress |-> c, row |-> p[c], error |-> "none", asked |-> TRUE]

Status(c) ==
    /\ reply' = getIndexingStatus(indexingProgress, c)
    /\ UNCHANGED <<indexingProgress, tokenTransfers, failedEvents,
                   indexingQueue, blockProcessingQueue, eventProcessingQueue,
                   currentBlock, batchSize, startCalls, stopCalls, resume,
                   drain, health, stopped, applied, faults, calls>>

StatusContracts == {"weth", "link"}

NextStatus ==
    \/ \E c \in StatusContracts : Status(c)
    \/ \E c \in StatusContracts : Start(c)
    \/ \E call \in Units(startCalls) : StartEnqueue(call)
    \/ \E c \in StatusContracts : Stop(c)
    \/ \E c \in StatusContracts : StopRemove(c)
    \/ \E u \in Units(indexingQueue) : RunStart(u)
    \/ \E u \in Units(indexingQueue) : RunCaughtUp(u)
    \/ \E u \in Units(indexingQueue) : RunLoopCheck(u)
    \/ \E u \in Units(indexingQueue) : RunLoopAdd(u)
    \/ \E u \in Units(indexingQueue) : RunFinal(u)
    \/ Mine

SpecStatus == Init /\ [][NextStatus]_vars

\* A step in which getIndexingStatus answered.
Answered == reply' # reply

\* C25 (as claimed): status for a contract with no progress row surfaces a
\* not-found error; for a contract with a row it answers the stored row;
\* it modifies nothing.
C25_StatusAsClaimed ==
    [][Answered =>
         /\ reply'.row = indexingProgress[reply'.contractAddress]
         /\ reply'.error = IF HasRow(reply'.contractAddress)
                           THEN "none" ELSE "NotFoundError"
         /\ UNCHANGED <<indexingProgress, tokenTransfers, failedEvents,
                        indexingQueue, blockProcessingQueue,
                        eventProcessingQueue>>]_vars

\* C25 (amended): status for a contract with no progress row answers null
\* and raises no error; for a contract with a row it answers the stored row;
\* it modifies nothing.
C25_Status ==
    [][Answered =>
         /\ reply'.row = indexingProgress[reply'.contractAddress]
         /\ reply'.error = "none"
         /\ UNCHANGED <<indexingProgress, tokenTransfers, failedEvents,
                        indexingQueue, blockProcessingQueue,
                        eventProcessingQueue>>]_vars

\* Status was asked for a contract without a row while another contract is
\* syncing, and answered null without an error.
C25_Witness ==
    /\ reply.asked
    /\ reply.contractAddress = "link"
    /\ reply.row = NoRow
    /\ reply.error = "none"
    /\ ~HasRow("link")
    /\ ReadSyncing("weth")

-----------------------------------------------------------------------------
(* Check-and-skip at the boundaries of a run *)

\* A step that takes unit u away from the indexing queue's units in state u.
Leaves(u) == CopiesIn(u, indexingQueue') < CopiesIn(u, indexingQueue)

\* C26: a run unit that is taken up while its row has isSyncing = false
\* leaves the queue without submitting a sub-range, without adding a run unit
\* and without changing any row; and a run unit that has finished its loop
\* and reads isSyncing = false leaves the queue without adding a follow-up
\* run unit.  (Steps of Stop's removal of units, which change stopCalls, are
\* not a run's steps.)
C26_CheckAndSkip ==
    [][stopCalls' = stopCalls =>
         \A u \in Units(indexingQueue) :
            ( /\ u.st \in Pending \cup {"final"}
              /\ HasRow(u.contractAddress)
              /\ ~ReadSyncing(u.contractAddress)
              /\ Leaves(u) ) =>
                /\ indexingQueue' = BagDel(indexingQueue, u)
                /\ indexingProgress' = indexingProgress
                /\ u.st \in Pending =>
                      blockProcessingQueue' = blockProcessingQueue]_vars

\* A single Start and no Stop: the run caught up, cleared the flag and
\* scheduled its recheck, and the recheck read isSyncing = false and left
\* nothing behind.
C26_Witness ==
    /\ calls = 1
    /\ startCalls = EmptyBag
    /\ HasRow("weth")
    /\ ~ReadSyncing("weth")
    /\ ~stopped["weth"]
    /\ indexingQueue = EmptyBag

-----------------------------------------------------------------------------
(* Stop's removal of units, with work of two contracts in the queues *)

CancelContracts == {"weth", "usdc"}

\* weth is syncing with its run unit waiting; usdc is idle with one of its
\* event units still waiting.
InitCancel == InitShutdown

NextCancel ==
    \/ \E c \in CancelContracts : Stop(c)
    \/ \E c \in CancelContracts : StopRemove(c)
    \/ \E c \in CancelContracts : StopRemoveFail(c)
    \/ \E u \in Units(indexingQueue) : RunStart(u)
    \/ \E u \in Units(indexingQueue) : RunCaughtUp(u)
    \/ \E u \in Units(indexingQueue) : RunLoopCheck(u)
    \/ \E u \in Units(indexingQueue) : RunLoopAdd(u)
    \/ \E u \in Units(indexingQueue) : RunFinal(u)
    \/ \E u \in Units(blockProcessingQueue) : BlockFetch(u)
    \/ \E u \in Units(blockProcessingQueue) : BlockUpdate(u)
    \/ \E u \in Units(eventProcessingQueue) : EventFind(u)
    \/ \E u \in Units(eventProcessingQueue) : EventApply(u)
    \/ \E u \in Units(eventProcessingQueue) : EventCount(u)

SpecCancel == InitCancel /\ [][NextCancel]_vars

\* The step in which the stopIndexing call for c does its removal.
Removal(c) ==
    /\ StopCall(c, "none") \in stopCalls
    /\ StopCall(c, "none") \notin stopCalls'

\* Queue Q becomes R by losing only waiting and delayed units of c.
OnlyPendingOf(c, Q, R) ==
    /\ Units(R) \subseteq Units(Q)
    /\ \A u \in Units(Q) :
          IF u.contractAddress = c /\ u.st \in Pending
          THEN CopiesIn(u, R) <= CopiesIn(u, Q)
          ELSE CopiesIn(u, R) = CopiesIn(u, Q)

\* Queue Q becomes R by losing every waiting and delayed unit of c.
NoPendingOf(c, R) ==
    \A u \in Units(R) : ~(u.contractAddress = c /\ u.st \in Pending)

-----------------------------------------------------------------------------
(* Every writer of the sync flag at work on one contract: the recovery     *)
(* pass after a restart, the operator's Stop, the runs with their errors,  *)
(* the workers of the sub-range and event queues with theirs, and the      *)
(* shutdown drain.  What is checked here is what a single step writes, so  *)
(* the handlers are run one at a time, each to its end; only the drain     *)
(* begins while a run is in its batch loop, and finds it as it is.         *)

\* What the restarted process finds: usdc still marked syncing, no unit left.
InitWriters ==
    /\ indexingProgress =
         [c \in Addresses |-> IF c = "usdc" THEN Row(0, TRUE, 1, 0) ELSE NoRow]
    /\ tokenTransfers = EmptyBag
    /\ failedEvents = EmptyBag
    /\ indexingQueue = EmptyBag
    /\ blockProcessingQueue = EmptyBag
    /\ eventProcessingQueue = EmptyBag
    /\ currentBlock = MaxHeight
    /\ batchSize = MaxBatch
    /\ startCalls = EmptyBag
    /\ stopCalls = {}
    /\ resume = [pc |-> "timer", idx |-> 0, started |-> {}, failed |-> {}]
    /\ drain = Idle
    /\ health = NoCheck
    /\ reply = NoReply
    /\ stopped = [c \in Addresses |-> FALSE]
    /\ applied = {}
    /\ faults = 0
    /\ calls = MaxCalls - 1

\* A step of the workers of the sub-range queue and of the event queue.
WorkerStep ==
    \/ \E u \in Units(blockProcessingQueue) : BlockFetch(u)
    \/ \E u \in Units(blockProcessingQueue) : BlockFetchFail(u)
    \/ \E u \in Units(blockProcessingQueue) : BlockUpdate(u)
    \/ \E u \in Units(eventProcessingQueue) : EventFind(u)
    \/ \E u \in Units(eventProcessingQueue) : EventApply(u)
    \/ \E u \in Units(eventProcessingQueue) : EventApplyFail(u)
    \/ \E u \in Units(eventProcessingQueue) : EventCount(u)
    \/ \E u \in Units(eventProcessingQueue) : EventFail(u)

\* A step of one of the writers the claim lists.
ClearingStep ==
    \/ \E c \in Addresses : Stop(c)
    \/ \E u \in Units(indexingQueue) : RunCaughtUp(u)
    \/ \E u \in Units(indexingQueue) : RunHeightFail(u)
    \/ \E u \in Units(indexingQueue) : RunAddFail(u)
    \/ ShutdownMark
    \/ RecoveryReset

\* No handler is under way.
AtRest ==
    /\ drain.pc = "idle"
    /\ resume.pc \in {"timer", "done"}
    /\ startCalls = EmptyBag
    /\ stopCalls = {}
    /\ \A n \in Range(queues) : getActive(queueNamed(n)) = EmptyBag

\* A run is at the test of its batch loop.
InLoop == \E u \in Units(indexingQueue) : u.st = "check"

NextWriters ==
    \/ AtRest /\ RecoveryReset
    \/ RecoverySkip
    \/ RecoveryStart
    \/ RecoveryStartFail
    \/ RecoveryEnqueue
    \/ AtRest /\ Stop("usdc")
    \/ StopRemove("usdc")
    \/ resume.pc = "done" /\ InLoop /\ ShutdownMark
    \/ ShutdownPoll
    \/ ShutdownSleep
    \/ ShutdownClose
    \/ \E u \in Units(indexingQueue) : AtRest /\ RunStart(u)
    \/ \E u \in Units(indexingQueue) : AtRest /\ RunHeightFail(u)
    \/ \E u \in Units(indexingQueue) : drain.pc = "idle" /\ RunCaughtUp(u)
    \/ \E u \in Units(indexingQueue) : drain.pc = "idle" /\ RunLoopCheck(u)
    \/ \E u \in Units(indexingQueue) : drain.pc = "idle" /\ RunLoopAdd(u)
    \/ \E u \in Units(indexingQueue) : drain.pc = "idle" /\ RunAddFail(u)
    \/ \E u \in Units(indexingQueue) : drain.pc = "idle" /\ RunFinal(u)
    \/ \E u \in Units(blockProcessingQueue) : AtRest /\ BlockFetch(u)
    \/ \E u \in Units(blockProcessingQueue) : AtRest /\ BlockFetchFail(u)
    \/ \E u \in Units(blockProcessingQueue) : drain.pc = "idle" /\ BlockUpdate(u)
    \/ \E u \in Units(eventProcessingQueue) : AtRest /\ EventFind(u)
    \/ \E u \in Units(eventProcessingQueue) : drain.pc = "idle" /\ EventApply(u)
    \/ \E u \in Units(eventProcessingQueue) : drain.pc = "idle" /\ EventApplyFail(u)
    \/ \E u \in Units(eventProcessingQueue) : drain.pc = "idle" /\ EventCount(u)
    \/ \E u \in Units(eventProcessingQueue) : drain.pc = "idle" /\ EventFail(u)

SpecWriters == InitWriters /\ [][NextWriters]_vars


\* The sync flag and the sync start of every row.
Flags(p) ==
    [c \in Addresses |->
        IF p[c] = NoRow THEN NoRow
        ELSE <<p[c].isSyncing, p[c].syncStartBlock>>]

\* C28: a step of a sub-range unit or of an event unit, failing or not,
\* leaves isSyncing and syncStartBlock of every row as they were; and a step
\* in which some row's isSyncing goes from true to false is a step of Stop,
\* of a run's caught-up transition, of a run's error handling, of the
\* shutdown mark or of the recovery reset.
C28_WorkersNeverWriteFlag ==
    [][/\ WorkerStep => Flags(indexingProgress') = Flags(indexingProgress)
       /\ (\E c \in Addresses : ReadSyncing(c) /\ ~ReadSyncing(c)') =>
             ClearingStep]_vars

\* While usdc is syncing, a sub-range has been processed, an event applied
\* and an event's failure recorded.
C28_Witness ==
    /\ ReadSyncing("usdc")
    /\ indexingProgress["usdc"].lastProcessedBlock > 0
    /\ tokenTransfers # EmptyBag
    /\ failedEvents # EmptyBag

-----------------------------------------------------------------------------
(* startIndexing's queue add may throw after the row has been written *)

\* indexingQueue.add throws: the catch block logs and rethrows; the row
\* stays as it was written.
StartEnqueueFail(call) ==
    /\ call \in Units(startCalls)
    /\ call.error = "none"
    /\ faults < MaxFaults
    /\ faults' = faults + 1
    /\ startCalls' = BagMove(startCalls, call,
                             [call EXCEPT !.error = "QueueError"])
    /\ UNCHANGED <<indexingProgress, tokenTransfers, failedEvents,
                   indexingQueue, blockProcessingQueue, eventProcessingQueue,
                   currentBlock, batchSize, stopCalls, resume, drain, health,
                   reply, stopped, applied, calls>>

NextStuck ==
    \/ \E c \in RunsContracts : Start(c)
    \/ \E call \in Units(startCalls) : StartEnqueue(call)
    \/ \E call \in Units(startCalls) : StartEnqueueFail(call)
    \/ \E call \in Units(startCalls) : StartThrow(call)
    \/ \E u \in Units(indexingQueue) : RunStart(u)
    \/ \E u \in Units(indexingQueue) : RunCaughtUp(u)
    \/ \E u \in Units(indexingQueue) : RunLoopCheck(u)
    \/ \E u \in Units(indexingQueue) : RunLoopAdd(u)
    \/ \E u \in Units(indexingQueue) : RunFinal(u)
    \/ Mine

SpecStuck == Init /\ [][NextStuck]_vars

\* A run unit of c is waiting, delayed or active, or a Start of c is between
\* its row write and its queue add.
HasRun(c) ==
    \/ \E u \in Units(indexingQueue) :
          u.contractAddress = c /\ u.st # "failed"
    \/ \E call \in Units(startCalls) :
          call.contractAddress = c /\ call.error = "none"

\* C29 (as claimed): a row with isSyncing = true has a run unit pending or
\* active in the run queue (or a Start about to add it).
C29_NeverStuck == \A c \in Addresses : ReadSyncing(c) => HasRun(c)

-----------------------------------------------------------------------------
(* The drain with a Start call arriving while it runs *)

\* usdc is enabled and its row was left with isSyncing = true by an earlier
\* process, either behind the chain head or at it; the recovery timer is
\* pending when the shutdown signal arrives.
InitDrainStart ==
    /\ \E from \in {0, MaxHeight} :
          indexingProgress =
            [c \in Addresses |->
                IF c = "usdc" THEN Row(from, TRUE, 1, 0) ELSE NoRow]
    /\ tokenTransfers = EmptyBag
    /\ failedEvents = EmptyBag
    /\ indexingQueue = EmptyBag
    /\ blockProcessingQueue = EmptyBag
    /\ eventProcessingQueue = EmptyBag
    /\ currentBlock = MaxHeight
    /\ batchSize = MaxBatch
    /\ startCalls = EmptyBag
    /\ stopCalls = {}
    /\ resume = [pc |-> "timer", idx |-> 0, started |-> {}, failed |-> {}]
    /\ drain = Idle
    /\ health = NoCheck
    /\ reply = NoReply
    /\ stopped = [c \in Addresses |-> FALSE]
    /\ applied = {}
    /\ faults = 0
    /\ calls = MaxCalls - 1

NextDrainStart ==
    \/ RecoveryReset
    \/ RecoverySkip
    \/ RecoveryStart
    \/ RecoveryEnqueue
    \/ Start("usdc")
    \/ \E call \in Units(startCalls) : StartEnqueue(call)
    \/ ShutdownMark
    \/ ShutdownPoll
    \/ ShutdownSleep
    \/ ShutdownClose
    \/ \E u \in Units(indexingQueue) : RunStart(u)
    \/ \E u \in Units(indexingQueue) : RunCaughtUp(u)
    \/ \E u \in Units(indexingQueue) : RunLoopCheck(u)
    \/ \E u \in Units(indexingQueue) : RunLoopAdd(u)
    \/ \E u \in Units(indexingQueue) : RunFinal(u)

SpecDrainStart == InitDrainStart /\ [][NextDrainStart]_vars

\* C30 (as claimed): the mark step leaves every row with isSyncing = false
\* and changes no row's lastProcessedBlock or totalEventsProcessed; and when
\* a queue is closed no row has isSyncing = true.
C30_NoRowSyncingAtClose ==
    [][/\ (drain.log = <<>> /\ drain'.log # <<>>) =>
             \A c \in Addresses :
                /\ ~ReadSyncing(c)'
                /\ HasRow(c) =>
                      /\ indexingProgress'[c].lastProcessedBlock =
                            indexingProgress[c].lastProcessedBlock
                      /\ indexingProgress'[c].totalEventsProcessed =
                            indexingProgress[c].totalEventsProcessed
       /\ drain'.closed # drain.closed =>
             \A c \in Addresses : ~ReadSyncing(c)]_vars


-----------------------------------------------------------------------------
(* Monitoring after the caught-up transition: one first Start, no Stop, no   *)
(* failure, the ledger grows; queued units are scheduled fairly.             *)

InitMonitor ==
    /\ indexingProgress = [c \in Addresses |-> NoRow]
    /\ tokenTransfers = EmptyBag
    /\ failedEvents = EmptyBag
    /\ indexingQueue = EmptyBag
    /\ blockProcessingQueue = EmptyBag
    /\ eventProcessingQueue = EmptyBag
    /\ currentBlock \in 0 .. MaxHeight - 1
    /\ batchSize \in 1 .. MaxBatch
    /\ startCalls = EmptyBag
    /\ stopCalls = {}
    /\ resume = Done
    /\ drain = Idle
    /\ health = NoCheck
    /\ reply = NoReply
    /\ stopped = [c \in Addresses |-> FALSE]
    /\ applied = {}
    /\ faults = 0
    /\ calls = MaxCalls - 1

\* A step of a worker of one of the three queues, or the queue add that ends
\* a Start.
MonitorWork ==
    \/ \E call \in Units(startCalls) : StartEnqueue(call)
    \/ \E u \in Units(indexingQueue) : RunStart(u)
    \/ \E u \in Units(indexingQueue) : RunCaughtUp(u)
    \/ \E u \in Units(indexingQueue) : RunLoopCheck(u)
    \/ \E u \in Units(indexingQueue) : RunLoopAdd(u)
    \/ \E u \in Units(indexingQueue) : RunFinal(u)
    \/ \E u \in Units(blockProcessingQueue) : BlockFetch(u)
    \/ \E u \in Units(blockProcessingQueue) : BlockUpdate(u)
    \/ \E u \in Units(eventProcessingQueue) : EventFind(u)
    \/ \E u \in Units(eventProcessingQueue) : EventApply(u)
    \/ \E u \in Units(eventProcessingQueue) : EventCount(u)

NextMonitor ==
    \/ \E c \in EngineContracts : FirstStart(c)
    \/ MonitorWork
    \/ Mine

SpecMonitor == InitMonitor /\ [][NextMonitor]_vars /\ WF_vars(MonitorWork)

\* The caught-up transition was made: the flag is down and the 30 s recheck
\* is armed.
Armed(c) ==
    /\ HasRow(c)
    /\ ~indexingProgress[c].isSyncing
    /\ \E u \in Units(indexingQueue) :
          u.contractAddress = c /\ u.st = "delayed" /\ u.delay = MonitoringDelay

\* The ledger has grown beyond lastProcessedBlock + 1.
Behind(c) ==
    HasRow(c) /\ indexingProgress[c].lastProcessedBlock + 1 < currentBlock

\* No sub-range unit of the contract is waiting or in flight.
Quiet(c) ==
    \A u \in Units(blockProcessingQueue) : u.contractAddress # c

\* C31 (as claimed): once the caught-up transition is made (flag down,
\* recheck armed, nothing of the contract in flight), whenever the ledger
\* later grows beyond lastProcessedBlock + 1, lastProcessedBlock eventually
\* reaches the height - 1, with no Start and no restart.
C31_MonitoringResumes ==
    \A c \in EngineContracts :
        []((Armed(c) /\ Quiet(c) /\ ~Behind(c)) =>
              [](Behind(c) => <>(~Behind(c))))


-----------------------------------------------------------------------------
(* Blocks the cursor has passed *)

\* The blocks the row says are processed.
Covered(c) ==
    IF HasRow(c)
    THEN indexingProgress[c].syncStartBlock ..
            indexingProgress[c].lastProcessedBlock
    ELSE {}

\* Where every fetch of a sub-range that holds BadBlock throws, BadBlock is
\* in no sub-range whose unit completed.
InCompletedRange(b) == b # BadBlock

\* C32 (as claimed): every block from syncStartBlock to lastProcessedBlock
\* lies in a sub-range whose unit completed; when a lower sub-range fails all
\* its attempts and a higher one succeeds, lastProcessedBlock does not end
\* above the failed sub-range's blocks.
C32_NoSkippedBlocks ==
    \A c \in Addresses : \A b \in Covered(c) : InCompletedRange(b)


-----------------------------------------------------------------------------
(* Sub-ranges submitted by successive runs *)

\* The sub-range units this step adds to the block queue.
Submitted ==
    { b \in Units(blockProcessingQueue') :
        /\ b.st = "waiting" /\ b.attemptsMade = 0
        /\ CopiesIn(b, blockProcessingQueue') >
              CopiesIn(b, blockProcessingQueue) }

Overlap(a, b) == a.fromBlock <= b.toBlock /\ b.fromBlock <= a.toBlock

\* C33 (as claimed): with a single Start and no failure, a run never submits
\* a sub-range that shares a block with a sub-range of the same contract that
\* is still pending or in flight.
C33_NoRangeTwice ==
    [][\A b \in Submitted :
          \A o \in Units(blockProcessingQueue) :
              o.contractAddress = b.contractAddress => ~Overlap(o, b)]_vars


-----------------------------------------------------------------------------
(* Catching up with a ledger that stands still: one first Start, no Stop, no *)
(* failure, no new block; queued units are scheduled fairly.                 *)

\* The fixed height H, above what one sub-range of the largest batch covers
\* from the first cursor.
InitCatchUp ==
    /\ indexingProgress = [c \in Addresses |-> NoRow]
    /\ tokenTransfers = EmptyBag
    /\ failedEvents = EmptyBag
    /\ indexingQueue = EmptyBag
    /\ blockProcessingQueue = EmptyBag
    /\ eventProcessingQueue = EmptyBag
    /\ currentBlock \in 1 .. MaxHeight + 1
    /\ batchSize \in 1 .. MaxBatch
    /\ startCalls = EmptyBag
    /\ stopCalls = {}
    /\ resume = Done
    /\ drain = Idle
    /\ health = NoCheck
    /\ reply = NoReply
    /\ stopped = [c \in Addresses |-> FALSE]
    /\ applied = {}
    /\ faults = 0
    /\ calls = MaxCalls - 1

NextCatchUp ==
    \/ \E c \in EngineContracts : FirstStart(c)
    \/ MonitorWork

SpecCatchUp == InitCatchUp /\ [][NextCatchUp]_vars /\ WF_vars(NextCatchUp)

\* C34 (as claimed): a contract started once eventually has
\* lastProcessedBlock >= H - 1 and isSyncing = false, and no run unit stays
\* in its submission loop.
C34_CatchUpLiveness ==
    \A c \in EngineContracts :
        /\ <>(/\ HasRow(c)
              /\ IsCaughtUp(indexingProgress[c].lastProcessedBlock, currentBlock)
              /\ ~indexingProgress[c].isSyncing)
        /\ <>[](\A u \in Units(indexingQueue) :
                    u.contractAddress = c => u.st \notin {"check", "add"})


-----------------------------------------------------------------------------
(* A Start while an older run of the contract is finishing *)

\* An older run unit of the contract has read the row and is in its
\* caught-up branch, before its write of isSyncing = false.
Finishing(c) ==
    \E u \in Units(indexingQueue) : u.contractAddress = c /\ u.st = "caughtup"

\* The operator's Start arrives at that moment.
LateStart(c) == Finishing(c) /\ Start(c)

NextLost ==
    \/ \E c \in EngineContracts : FirstStart(c)
    \/ \E c \in EngineContracts : LateStart(c)
    \/ MonitorWork
    \/ Mine

SpecLost == Init /\ [][NextLost]_vars

\* The run units this step takes up and ends at the isSyncing check.
Skipped ==
    { u \in Units(indexingQueue) :
        /\ u.st \in Pending
        /\ ~ReadSyncing(u.contractAddress)
        /\ CopiesIn(u, indexingQueue') < CopiesIn(u, indexingQueue)
        /\ Size(indexingQueue') < Size(indexingQueue) }

\* C35 (as claimed): the run unit a successful Start enqueued (waiting, no
\* delay) while an older run was in its caught-up path is never ended at the
\* isSyncing check: it runs with isSyncing = true.
C35_StartNotLost ==
    [][\A u \in Skipped : u.st # "waiting"]_vars


-----------------------------------------------------------------------------
(* After a Stop: no Start follows, the workers of the three queues are       *)
(* scheduled fairly and every stopIndexing call returns.                     *)

\* A stopIndexing call in flight does its removal, whole or in part.
StopReturns ==
    \/ \E c \in CancelContracts : StopRemove(c)
    \/ \E c \in CancelContracts : StopRemoveFail(c)

SpecQuiet ==
    InitCancel /\ [][NextCancel]_vars /\ WF_vars(MonitorWork) /\ WF_vars(StopReturns)

\* Stop of c has returned and no Start has written the row since.
StopReturned(c) ==
    stopped[c] /\ \A call \in stopCalls : call.contractAddress # c

UnitsOf(c) ==
    { u \in Units(indexingQueue) \cup Units(blockProcessingQueue)
            \cup Units(eventProcessingQueue) : u.contractAddress = c }

\* Nothing of c is waiting, delayed or active, and its flag is down.
Quiescent(c) == UnitsOf(c) = {} /\ ~ReadSyncing(c)

\* C36: after Stop of a contract has returned, with no later Start, the
\* system eventually reaches and stays in a state where no unit of the
\* contract is waiting, delayed or active and isSyncing is false; from such
\* a state on, every step leaves the contract's row, lastProcessedBlock
\* included, as it is.
C36_QuiescenceAfterStop ==
    /\ \A c \in CancelContracts : <>[](StopReturned(c) => Quiescent(c))
    /\ [][\A c \in CancelContracts :
            StopReturned(c) /\ Quiescent(c) =>
               /\ Quiescent(c)'
               /\ indexingProgress'[c] = indexingProgress[c]]_vars

\* weth was stopped while its run was active and had a sub-range in flight;
\* every unit of weth has since ended and the cursor shows the sub-range's
\* write.
C36_Witness ==
    /\ StopReturned("weth")
    /\ Quiescent("weth")
    /\ indexingProgress["weth"].lastProcessedBlock > 0


-----------------------------------------------------------------------------
(* Two contracts at work side by side: the recovery pass and its Starts, a   *)
(* Stop, the workers of the three queues and the drain, one handler at a     *)
(* time.                                                                     *)

\* Both rows were left marked syncing by the previous process; the run unit
\* of weth has persisted.
InitIsolation ==
    /\ indexingProgress =
         [c \in Addresses |->
             IF c \in CancelContracts THEN Row(0, TRUE, 1, 0) ELSE NoRow]
    /\ tokenTransfers = EmptyBag
    /\ failedEvents = EmptyBag
    /\ indexingQueue = SetToBag({RunUnit("weth", "waiting", 0)})
    /\ blockProcessingQueue = EmptyBag
    /\ eventProcessingQueue = EmptyBag
    /\ currentBlock = MaxHeight
    /\ batchSize = MaxBatch
    /\ startCalls = EmptyBag
    /\ stopCalls = {}
    /\ resume = [pc |-> "timer", idx |-> 0, started |-> {}, failed |-> {}]
    /\ drain = Idle
    /\ health = NoCheck
    /\ reply = NoReply
    /\ stopped = [c \in Addresses |-> FALSE]
    /\ applied = {}
    /\ faults = 0
    /\ calls = MaxCalls - 1

\* The shutdown signal arrives after the recovery pass and the operator's
\* call, while a run is in its batch loop.
NextIsolation ==
    \/ AtRest /\ RecoveryReset
    \/ RecoverySkip
    \/ RecoveryStart
    \/ RecoveryEnqueue
    \/ \E c \in CancelContracts : AtRest /\ Stop(c)
    \/ \E c \in CancelContracts : StopRemove(c)
    \/ resume.pc = "done" /\ calls = MaxCalls /\ InLoop /\ ShutdownMark
    \/ ShutdownPoll
    \/ ShutdownSleep
    \/ ShutdownClose
    \/ \E u \in Units(indexingQueue) : AtRest /\ RunStart(u)
    \/ \E u \in Units(indexingQueue) : drain.pc = "idle" /\ RunCaughtUp(u)
    \/ \E u \in Units(indexingQueue) : drain.pc = "idle" /\ RunLoopCheck(u)
    \/ \E u \in Units(indexingQueue) : drain.pc = "idle" /\ RunLoopAdd(u)
    \/ \E u \in Units(indexingQueue) : drain.pc = "idle" /\ RunFinal(u)
    \/ \E u \in Units(blockProcessingQueue) : AtRest /\ BlockFetch(u)
    \/ \E u \in Units(blockProcessingQueue) : drain.pc = "idle" /\ BlockUpdate(u)
    \/ \E u \in Units(eventProcessingQueue) : AtRest /\ EventFind(u)
    \/ \E u \in Units(eventProcessingQueue) : drain.pc = "idle" /\ EventApply(u)
    \/ \E u \in Units(eventProcessingQueue) : drain.pc = "idle" /\ EventCount(u)

SpecIsolation == InitIsolation /\ [][NextIsolation]_vars


\* The step removes no unit of contract b from queue Q and changes none.
KeepsUnits(b, Q, R) ==
    \A u \in Units(Q) :
        u.contractAddress = b => CopiesIn(u, R) = CopiesIn(u, Q)

\* The step leaves the row and the queued units of every contract but a.
Isolated(a) ==
    \A b \in Addresses \ {a} :
        /\ indexingProgress'[b] = indexingProgress[b]
        /\ KeepsUnits(b, indexingQueue, indexingQueue')
        /\ KeepsUnits(b, blockProcessingQueue, blockProcessingQueue')
        /\ KeepsUnits(b, eventProcessingQueue, eventProcessingQueue')

\* A step of Start or Stop for contract a.
CallStepFor(a) ==
    \/ resume.pc \in {"resume", "enqueue"} /\ contractList[resume.idx] = a
         /\ (RecoveryStart \/ RecoveryEnqueue)
    \/ Stop(a)
    \/ StopRemove(a)

\* A step of a run unit, a sub-range unit or an event unit.
RunStepOf(u) ==
    \/ RunStart(u) \/ RunHeightFail(u) \/ RunCaughtUp(u) \/ RunLoopCheck(u)
    \/ RunLoopAdd(u) \/ RunAddFail(u) \/ RunFinal(u)

BlockStepOf(u) == BlockFetch(u) \/ BlockFetchFail(u) \/ BlockUpdate(u)

EventStepOf(u) ==
    \/ EventFind(u) \/ EventApply(u) \/ EventApplyFail(u) \/ EventCount(u)
    \/ EventFail(u)

\* The contracts whose row this step changes.
RowsChanged == { c \in Addresses : indexingProgress'[c] # indexingProgress[c] }

\* C37: a step of Start, of Stop, of a run unit, of a sub-range unit or of
\* an event unit of contract A changes no field of the row of another
\* contract and removes no queued unit of another contract; a step that
\* changes the rows of more than one contract is the recovery reset or the
\* shutdown mark.
C37_CrossEntityIsolation ==
    [][/\ \A a \in Addresses : CallStepFor(a) => Isolated(a)
       /\ \A u \in Units(indexingQueue) :
             RunStepOf(u) => Isolated(u.contractAddress)
       /\ \A u \in Units(blockProcessingQueue) :
             BlockStepOf(u) => Isolated(u.contractAddress)
       /\ \A u \in Units(eventProcessingQueue) :
             EventStepOf(u) => Isolated(u.contractAddress)
       /\ Cardinality(RowsChanged) > 1 => RecoveryReset \/ ShutdownMark]_vars

\* usdc has been stopped and its row shows it, while the run of weth that
\* the recovery pass started goes on with its units in the queues.
C37_Witness ==
    /\ stopped["usdc"] /\ ~ReadSyncing("usdc") /\ stopCalls = {}
    /\ ReadSyncing("weth")
    /\ \E u \in Units(indexingQueue) :
          u.contractAddress = "weth" /\ u.st \in {"check", "add", "final"}
    /\ indexingProgress["usdc"].totalEventsProcessed > 0


-----------------------------------------------------------------------------
(* A health check of a system that has caught up: after a restart the        *)
(* recovery pass resumes the three enabled contracts, their runs reach the   *)
(* caught-up transition, and getSystemHealth is then called with the ledger  *)
(* and the storage answering.                                                *)

\* The ledger stands at 1050; usdc and weth were at the head when the
\* previous process ended, link two blocks behind.
InitSettled ==
    /\ indexingProgress =
         [c \in Addresses |->
             CASE c = "usdc" -> Row(1049, FALSE, 1, 3)
               [] c = "weth" -> Row(1050, FALSE, 1050, 0)
               [] c = "link" -> Row(1048, FALSE, 1000, 3)
               [] OTHER -> NoRow]
    /\ tokenTransfers = EmptyBag
    /\ failedEvents = EmptyBag
    /\ indexingQueue = EmptyBag
    /\ blockProcessingQueue = EmptyBag
    /\ eventProcessingQueue = EmptyBag
    /\ currentBlock = 1050
    /\ batchSize = MaxBatch
    /\ startCalls = EmptyBag
    /\ stopCalls = {}
    /\ resume = [pc |-> "timer", idx |-> 0, started |-> {}, failed |-> {}]
    /\ drain = Idle
    /\ health = NoCheck
    /\ reply = NoReply
    /\ stopped = [c \in Addresses |-> FALSE]
    /\ applied = {}
    /\ faults = 0
    /\ calls = 0

\* Every enabled contract has made the caught-up transition and nothing is
\* left to do but the armed rechecks.
AllCaughtUp ==
    /\ resume.pc = "done"
    /\ \A c \in enabledContracts :
          /\ HasRow(c)
          /\ ~indexingProgress[c].isSyncing
          /\ currentBlock - indexingProgress[c].lastProcessedBlock <= 1
          /\ Armed(c)
    /\ blockProcessingQueue = EmptyBag
    /\ eventProcessingQueue = EmptyBag
    /\ \A u \in Units(indexingQueue) : u.st \in Pending

NextSettled ==
    \/ RecoveryReset
    \/ RecoverySkip
    \/ RecoveryStart
    \/ RecoveryEnqueue
    \/ \E u \in Units(indexingQueue) : RunStartWaiting(u)
    \/ \E u \in Units(indexingQueue) : RunCaughtUp(u)
    \/ \E u \in Units(indexingQueue) : RunLoopCheck(u)
    \/ \E u \in Units(indexingQueue) : RunLoopAdd(u)
    \/ \E u \in Units(indexingQueue) : RunFinal(u)
    \/ \E u \in Units(indexingQueue) : u.delay = CatchUpDelay /\ RunStart(u)
    \/ \E u \in Units(blockProcessingQueue) : BlockFetch(u)
    \/ \E u \in Units(blockProcessingQueue) : BlockUpdate(u)
    \/ \E u \in Units(eventProcessingQueue) : EventFind(u)
    \/ \E u \in Units(eventProcessingQueue) : EventApply(u)
    \/ \E u \in Units(eventProcessingQueue) : EventCount(u)
    \/ AllCaughtUp /\ HealthBlockchain
    \/ HealthFind
    \/ HealthHeight
    \/ HealthSum
    \/ HealthCount

SpecSettled == InitSettled /\ [][NextSettled]_vars

\* C38 (as claimed): a health check made when the ledger and the storage
\* answer, every enabled contract has made the caught-up transition with a
\* lag of at most 1 and failed_events holds at most 100 rows, returns status
\* healthy with no issue.
C38_CaughtUpIsHealthy ==
    health.pc = "done" =>
        health.status = "healthy" /\ health.issues = <<>>


-----------------------------------------------------------------------------
(* A storage failure between the insert of a transfer and the increment of   *)
(* the counter                                                               *)

\* indexingProgressRepository.increment throws after processTransferEvent has
\* saved the row: the catch block takes over.
EventCountFail(u) ==
    /\ u \in Units(eventProcessingQueue)
    /\ u.st = "count"
    /\ faults < MaxFaults
    /\ faults' = faults + 1
    /\ eventProcessingQueue' =
         BagMove(eventProcessingQueue, u, [u EXCEPT !.st = "fail"])
    /\ UNCHANGED <<indexingProgress, tokenTransfers, failedEvents, indexingQueue,
                   blockProcessingQueue, currentBlock, batchSize, startCalls,
                   stopCalls, resume, stopped, applied, calls, drain, health,
                   reply>>

NextCounter ==
    \/ Next
    \/ \E u \in Units(eventProcessingQueue) : EventCountFail(u)

SpecCounter == Init /\ [][NextCounter]_vars

\* The materialized records of a contract.
Materialized(c) ==
    Size([k \in { Key(ev) : ev \in { e \in Ledger : e.contractAddress = c } }
                \cap Units(tokenTransfers) |-> tokenTransfers[k]])

\* No event unit of the contract is between its lookup and its end.
NoEventInFlight(c) ==
    \A u \in Units(eventProcessingQueue) :
        u.contractAddress = c => u.st \in Pending

\* C39 (as claimed): whenever no event unit of a contract is in flight, its
\* totalEventsProcessed is at least the number of its materialized records;
\* and no event is both materialized and recorded in failed_events.
C39_CounterNeverLags ==
    /\ \A c \in Addresses :
          HasRow(c) /\ NoEventInFlight(c) =>
              indexingProgress[c].totalEventsProcessed >= Materialized(c)
    /\ \A ev \in Ledger :
          ~(BagIn(Key(ev), tokenTransfers) /\ BagIn(Key(ev), failedEvents))

=============================================================================
